---- MODULE Spec2Model ----
(***************************************************************************)
(* Splitly: receipt extraction pipeline and split allocation engine.       *)
(*                                                                         *)
(* Nine state machines share this module:                                  *)
(*   SpecVision  the Gemini vision extractor (imports/api/geminiOcr.ts),   *)
(*               in its two variants: the adaptive-retry extractor and the *)
(*               single-request extractor kept in the same file;           *)
(*   SpecOcr     the Tesseract text recogniser (services/ocr/ocrService.js)*)
(*   SpecBill    a bill document under the bills.* methods (api/bills.ts)  *)
(*               with the derived views computeExpenseSummary (models.ts)  *)
(*               and finalPerUserRows (ui/blaze/pages/splitPage.js);       *)
(*   SpecUpload  the progress of a receipt upload (ui/blaze/layout.js and  *)
(*               ui/blaze/pages/dashboard.js);                             *)
(*   SpecParse   the receipt text parsers (unnamed/part_012, api/bills.ts); *)
(*   SpecImage   the image preprocessor (unnamed/part_006) under the        *)
(*               canvas handling of recognizeText;                         *)
(*   SpecData    the Bills and GlobalUsers collections under the methods   *)
(*               that insert, remove and clear (api/bills.ts, users.ts);   *)
(*   SpecRace    two calls of bill methods interleaved on one bill;        *)
(*   SpecAlerts  the alert list of the layout (ui/blaze/layout.js).        *)
(* SpecUploadLive is SpecUpload with every awaited promise settling.       *)
(* Money is held in integer cents; shares that are not whole cents are     *)
(* exact rationals [n, d].                                                 *)
(***************************************************************************)
EXTENDS Integers, Sequences, FiniteSets, TLC

VARIABLES
    \* ---- vision extractor ----
    variant,        \* which extractReceiptWithGemini runs: "adaptive" | "single"
    apiKey,         \* process.env.GOOGLE_GEMINI_API_KEY is set
    imageLen,       \* length of the base64 image data
    gPc,            \* "idle" | "await" (a generateContent call is in flight) | "done"
    maxTokens,      \* maxOutputTokens of the current attempt
    attempt,        \* attempt number of the current extractWithTokens frame
    requests,       \* ceilings of the generateContent calls made so far, in order
    finishes,       \* outcome of each call answered so far, in order
    gResult,        \* what extractReceiptWithGemini returned
    \* ---- text recogniser ----
    oPc,            \* "idle" | "recognizing" (worker.recognize is running) | "done"
    hasCallback,    \* recognizeText was given a progressCallback
    strategyIdx,    \* index into strategies of the trial that is running
    jobProgress,    \* last m.progress (in percent) logged by the running job
    jobLogs,        \* number of 'recognizing text' messages of the running job
    reported,       \* percentages passed to progressCallback so far, in order
    trials,         \* result.data of every trial that has finished, in order
    bestResult,     \* bestResult: index into trials, 0 for null
    bestScore,      \* bestScore squared, -1 before any trial is kept
    oResult,        \* what recognizeText returned
    \* ---- bill document ----
    users,          \* bill.users: the ids of its user profiles, in order
    items,          \* bill.items, in order
    taxAmount,      \* bill.taxAmount in cents (0 when unset)
    calculatedWithTax, \* bill.calculatedWithTax in cents: <<>> when unset, <<c>> when set
    receipt,        \* the other fields persistParsedReceipt sets
    \* ---- receipt upload ----
    flow,           \* which handleFileUpload runs: "dashboard" | "layout"
    uPc,            \* the await handleFileUpload is suspended at, "idle" when none
    ocrProcessing,  \* tpl.ocrProcessing
    ocrProgress,    \* tpl.ocrProgress
    progressLog,    \* values ocrProgress was set to while ocrProcessing, this upload
    callbacks,      \* progress callbacks received from recognizeText, this upload
    actionLock,     \* tpl.actionLock
    billsCreated,   \* calls of bills.insert that resolved, this upload
    navigated,      \* FlowRouter.go was called, this upload
    \* ---- receipt text parsers ----
    parser,         \* the parser that runs: "legacy" or a sub-parser, "none" before any
    lines,          \* lines: the trimmed, non-empty lines of the text
    pPc,            \* "idle" | "loop" (the item loop runs) | "done"
    lineIdx,        \* i of the item loop, counted from 1
    pItems,         \* items
    usedLines,      \* usedLines
    found,          \* receiptTotal, taxAmount, totalAmount as found in the text
    parseResult,    \* what the parser returned
    \* ---- image preprocessing ----
    iPc,            \* the statement of recognizeText reached, "idle" before the call
    canvases,       \* the canvases created so far; a reference is an index
    scaledCanvas,   \* scaledCanvas (also processed3)
    minimalCanvas,  \* minimalCanvas
    processed1,     \* processed1
    thresholdCanvas, \* thresholdCanvas
    processed2,     \* processed2
    \* ---- collections ----
    production,     \* the server runs in the production environment
    billDocs,       \* the _ids of the documents of Bills
    globalUsers,    \* the documents of GlobalUsers
    lastCall,       \* the last method called and whether it threw
    \* ---- two concurrent bill methods ----
    rPc,            \* per caller: "idle" | "fetched" (findOneAsync resolved) | "done" | "thrown"
    rCall,          \* per caller: the method called and its arguments
    existing,       \* per caller: existing, the bill findOneAsync returned
    overlapped,     \* a call was made while the other was between its read and its write
    \* ---- alerts ----
    alerts,         \* alertsVar: the ids of the alerts shown, in order
    timers,         \* the alerts whose setTimeout is pending, oldest first
    pushed          \* number of pushAlert calls made

visionVars == <<variant, apiKey, imageLen, gPc, maxTokens, attempt, requests, finishes, gResult>>

ocrVars == <<oPc, hasCallback, strategyIdx, jobProgress, jobLogs, reported, trials,
             bestResult, bestScore, oResult>>

billVars == <<users, items, taxAmount, calculatedWithTax, receipt>>

uploadVars == <<flow, uPc, ocrProcessing, ocrProgress, progressLog, callbacks,
                actionLock, billsCreated, navigated>>

parseVars == <<parser, lines, pPc, lineIdx, pItems, usedLines, found, parseResult>>

imageVars == <<iPc, canvases, scaledCanvas, minimalCanvas, processed1, thresholdCanvas, processed2>>

dataVars == <<production, billDocs, globalUsers, lastCall>>

raceVars == <<rPc, rCall, existing, overlapped>>

alertVars == <<alerts, timers, pushed>>

vars == <<visionVars, ocrVars, billVars, uploadVars, parseVars, imageVars, dataVars, raceVars, alertVars>>

NoValue == "NoValue"

(***************************************************************************)
(* Vision extractor                                                        *)
(***************************************************************************)

\* Base64 lengths on both sides of every size tier (sizeKB = len * 3 / 4 / 1024).
ImageLens == {1000, 136533, 136534, 409599, 409600, 819199, 819200}

TokenCap == 8192
MaxAttempts == 3
SingleMaxTokens == 4096
MinJsonLength == 10

ErrNoKey == "API key not configured"
ErrNoCandidates == "No response candidates from Gemini API"
ErrTooComplex == "Response exceeded max tokens even at 8192 (receipt too complex)"
ErrSafety == "Content blocked by safety filters"
ErrUnexpected(finishReason) == "Unexpected finish reason: " \o finishReason
ErrEmpty == "Empty or invalid response from Gemini"
ErrStructure == "Invalid response structure: missing items array"
ErrSingleMaxTokens == "Response exceeded max tokens (try a clearer receipt image)"
\* Messages made outside this file: JSON.parse's SyntaxError and the SDK's
\* rejection of generateContent.
ErrJsonParse == "Unexpected end of JSON input"
ErrNetwork == "fetch failed"

FinishReasons == {"STOP", "MAX_TOKENS", "SAFETY", "RECITATION"}

\* What response.text() holds: its length after trimming and fence removal,
\* whether JSON.parse accepts it, and whether the parsed object has an items
\* array.
Bodies ==
    { [len |-> 0, parses |-> FALSE, items |-> FALSE],
      [len |-> 9, parses |-> TRUE, items |-> FALSE],
      [len |-> 40, parses |-> FALSE, items |-> FALSE],
      [len |-> 40, parses |-> TRUE, items |-> FALSE],
      [len |-> 40, parses |-> TRUE, items |-> TRUE] }

\* An answer of model.generateContent: it rejects, or resolves with a response.
Responses ==
    { [rejected |-> TRUE, candidates |-> FALSE, finishReason |-> NoValue,
       body |-> NoValue] }
    \cup
    { [rejected |-> FALSE, candidates |-> FALSE, finishReason |-> NoValue,
       body |-> NoValue] }
    \cup
    [rejected : {FALSE}, candidates : {TRUE}, finishReason : FinishReasons,
     body : Bodies]

\* Nothing returned yet.
NoResult == [pending |-> TRUE]

Failure(msg) == [success |-> FALSE, error |-> msg, items |-> NoValue]
Success(body) == [success |-> TRUE, error |-> NoValue, items |-> "data.items"]

Min(a, b) == IF a < b THEN a ELSE b

\* sizeKB < k, with sizeKB = (len * 3) / 4 / 1024, kept in integers
SizeKBBelow(len, k) == len * 3 < k * 4 * 1024

estimateStartingTokens(len) ==
    IF SizeKBBelow(len, 100) THEN 2048
    ELSE IF SizeKBBelow(len, 300) THEN 4096
    ELSE IF SizeKBBelow(len, 600) THEN 6144
    ELSE 8192

\* The tail of extractWithTokens once finishReason is STOP: fence removal,
\* the length test, JSON.parse, the structure test.
ParseBody(body, emptyMsg) ==
    IF body.len < MinJsonLength THEN Failure(emptyMsg)
    ELSE IF ~body.parses THEN Failure(ErrJsonParse)
    ELSE IF ~body.items THEN Failure(ErrStructure)
    ELSE Success(body)

\* Line 82 with the test lost: the key is never found missing.
KeyMissingNever(key) == FALSE

\* Lines 82 and 200: if (!apiKey)
KeyMissing(key) == ~key

\* Line 133 testing for the wrong reason.
TruncatedNever(finishReason) == FALSE

\* Line 133: generation stopped at the output ceiling
Truncated(finishReason) == finishReason = "MAX_TOKENS"

\* Line 134 without the cap.
NextTokensNoCap(tokens) == tokens * 2

\* Line 134: the ceiling of the next attempt
NextTokens(tokens) == Min(tokens * 2, TokenCap)

\* Line 136 counting attempts only.
ShouldRetryByCount(tokens, att) == att <= MaxAttempts

\* Line 136 giving up one attempt early.
ShouldRetryOnce(tokens, att) == NextTokens(tokens) > tokens /\ att < 2

\* Line 136: after MAX_TOKENS, is another attempt made?
ShouldRetry(tokens, att) == NextTokens(tokens) > tokens /\ att < MaxAttempts

\* Lines 143-180: what extractWithTokens returns or throws for a finish
\* reason that is not MAX_TOKENS.
AfterFinish(finishReason, body) ==
    IF finishReason # "STOP"
    THEN IF finishReason = "SAFETY"
         THEN Failure(ErrSafety)
         ELSE Failure(ErrUnexpected(finishReason))
    ELSE ParseBody(body, ErrEmpty)

\* The outcome label recorded for an answered call.
Outcome(r) ==
    IF r.rejected THEN "rejected"
    ELSE IF ~r.candidates THEN "no-candidates"
    ELSE r.finishReason

\* One frame of extractWithTokens(image, tokens, att) up to its await: the
\* key check of line 82, then the generateContent call.
CallExtractWithTokens(tokens, att) ==
    IF KeyMissing(apiKey)
    THEN /\ gPc' = "done"
         /\ gResult' = Failure(ErrNoKey)
         /\ UNCHANGED <<maxTokens, attempt, requests>>
    ELSE /\ gPc' = "await"
         /\ maxTokens' = tokens
         /\ attempt' = att
         /\ requests' = Append(requests, tokens)
         /\ UNCHANGED gResult

\* extractReceiptWithGemini, adaptive variant, up to its first await.
ExtractReceiptWithGemini ==
    /\ gPc = "idle"
    /\ variant = "adaptive"
    /\ IF KeyMissing(apiKey)
       THEN /\ gPc' = "done"
            /\ gResult' = Failure(ErrNoKey)
            /\ UNCHANGED <<maxTokens, attempt, requests>>
       ELSE CallExtractWithTokens(estimateStartingTokens(imageLen), 1)
    /\ UNCHANGED <<variant, apiKey, imageLen, finishes>>

\* extractWithTokens resumes when generateContent settles: it returns,
\* throws (caught by extractReceiptWithGemini) or recurses into the next
\* attempt, which runs up to its own generateContent call.
ExtractWithTokens(r) ==
    /\ gPc = "await"
    /\ variant = "adaptive"
    /\ finishes' = Append(finishes, Outcome(r))
    /\ IF r.rejected
       THEN /\ gPc' = "done"
            /\ gResult' = Failure(ErrNetwork)
            /\ UNCHANGED <<maxTokens, attempt, requests>>
       ELSE IF ~r.candidates
       THEN /\ gPc' = "done"
            /\ gResult' = Failure(ErrNoCandidates)
            /\ UNCHANGED <<maxTokens, attempt, requests>>
       ELSE IF Truncated(r.finishReason)
       THEN IF ShouldRetry(maxTokens, attempt)
            THEN CallExtractWithTokens(NextTokens(maxTokens), attempt + 1)
            ELSE /\ gPc' = "done"
                 /\ gResult' = Failure(ErrTooComplex)
                 /\ UNCHANGED <<maxTokens, attempt, requests>>
       ELSE /\ gPc' = "done"
            /\ gResult' = AfterFinish(r.finishReason, r.body)
            /\ UNCHANGED <<maxTokens, attempt, requests>>
    /\ UNCHANGED <<variant, apiKey, imageLen>>

\* extractReceiptWithGemini, single-request variant, up to its await.
ExtractReceiptWithGeminiSingle ==
    /\ gPc = "idle"
    /\ variant = "single"
    /\ IF KeyMissing(apiKey)
       THEN /\ gPc' = "done"
            /\ gResult' = Failure(ErrNoKey)
            /\ UNCHANGED <<maxTokens, attempt, requests>>
       ELSE /\ gPc' = "await"
            /\ maxTokens' = SingleMaxTokens
            /\ attempt' = 1
            /\ requests' = Append(requests, SingleMaxTokens)
            /\ UNCHANGED gResult
    /\ UNCHANGED <<variant, apiKey, imageLen, finishes>>

\* Lines 336-343 of the single-request variant: the message thrown for a
\* finish reason other than STOP; NoValue when nothing is thrown and the
\* response text goes on to be parsed.
SingleFinishError(finishReason) ==
    IF finishReason = "SAFETY" THEN ErrSafety
    ELSE IF finishReason = "MAX_TOKENS" THEN ErrSingleMaxTokens
    ELSE NoValue

\* The single-request variant resumes when generateContent settles.
ExtractSingleResume(r) ==
    /\ gPc = "await"
    /\ variant = "single"
    /\ finishes' = Append(finishes, Outcome(r))
    /\ gPc' = "done"
    /\ gResult' =
         IF r.rejected THEN Failure(ErrNetwork)
         ELSE IF ~r.candidates THEN Failure(ErrNoCandidates)
         ELSE IF r.finishReason # "STOP" /\ SingleFinishError(r.finishReason) # NoValue
              THEN Failure(SingleFinishError(r.finishReason))
         ELSE ParseBody(r.body, ErrEmpty)
    /\ UNCHANGED <<variant, apiKey, imageLen, maxTokens, attempt, requests>>

InitVision ==
    /\ variant \in {"adaptive", "single"}
    /\ apiKey \in BOOLEAN
    /\ imageLen \in ImageLens
    /\ gPc = "idle"
    /\ maxTokens = 0
    /\ attempt = 0
    /\ requests = <<>>
    /\ finishes = <<>>
    /\ gResult = NoResult

\* The vision extractor before any call.
VisionIdle ==
    /\ variant = "adaptive"
    /\ apiKey = TRUE
    /\ imageLen = 1000
    /\ gPc = "idle"
    /\ maxTokens = 0
    /\ attempt = 0
    /\ requests = <<>>
    /\ finishes = <<>>
    /\ gResult = NoResult

(***************************************************************************)
(* Text recogniser: OCRService.recognizeText                               *)
(***************************************************************************)

\* Most 'recognizing text' messages one worker.recognize job logs.
MaxLogsPerJob == 1

\* m.progress of a logger message, in percent.
ProgressSteps == {0, 100}

MinTextLength == 30
MinConfidence == 15
ExitConfidence == 70
ExitPriceCount == 3
ExitLength == 100

Strategies == <<"minimal", "original", "threshold">>

\* result.data of one trial: the confidence, and the text by its length and
\* the number of price patterns /\$?\d+\.\d{2}/g matches in it.
TrialData ==
    [confidence : {10, 70, 71}, len : {20, 30, 100, 400}, priceCount : {2, 3}]

TextOf(d) == [len |-> d.len, priceCount |-> d.priceCount]
EmptyText == [len |-> 0, priceCount |-> 0]

\* Line 87, squared: score = conf * sqrt(len) * (1 + priceCount * 2). Scores
\* are never negative, so comparing squares compares scores.
ScoreSquared(d) ==
    d.confidence * d.confidence * d.len * (1 + d.priceCount * 2) * (1 + d.priceCount * 2)

\* Line 91: score > bestScore && len >= 30 (bestScore starts at -1)
IsNewBest(d, best) == (best = -1 \/ ScoreSquared(d) > best) /\ d.len >= MinTextLength

\* Line 97 with the early exit lost.
IsExcellentNever(d) == FALSE

\* Line 97: the early-exit test
IsExcellent(d) ==
    d.confidence > ExitConfidence /\ d.priceCount >= ExitPriceCount /\ d.len >= ExitLength

\* Line 51: the percentage the logger reports for m.progress = p / 100
LoggerPercent(p) == 20 + (p * 45) \div 100

\* progressCallback(n), when a callback was given
Report(log, n) == IF hasCallback THEN Append(log, n) ELSE log

OcrFailure == [text |-> EmptyText, confidence |-> 0, success |-> FALSE]

\* recognizeText up to the first worker.recognize call; loads = FALSE is
\* _loadImage rejecting.
RecognizeText(loads) ==
    /\ oPc = "idle"
    /\ IF loads
       THEN /\ oPc' = "recognizing"
            /\ reported' = Report(Report(Report(reported, 10), 15), 20)
            /\ strategyIdx' = 1
            /\ jobProgress' = 0
            /\ jobLogs' = 0
            /\ UNCHANGED oResult
       ELSE /\ oPc' = "done"
            /\ oResult' = OcrFailure
            /\ UNCHANGED <<reported, strategyIdx, jobProgress, jobLogs>>
    /\ UNCHANGED <<hasCallback, trials, bestResult, bestScore>>

\* The worker's logger while a job runs (lines 49-54). Within one job
\* Tesseract's m.progress does not go down.
Logger(p) ==
    /\ oPc = "recognizing"
    /\ jobLogs < MaxLogsPerJob
    /\ p >= jobProgress
    /\ jobProgress' = p
    /\ jobLogs' = jobLogs + 1
    /\ reported' = Report(reported, LoggerPercent(p))
    /\ UNCHANGED <<oPc, hasCallback, strategyIdx, trials, bestResult, bestScore, oResult>>

\* worker.recognize resolves with d: the loop body of lines 76-100, then
\* either the next trial's recognize call or lines 103-128.
RecognizeResolves(d) ==
    /\ oPc = "recognizing"
    /\ trials' = Append(trials, d)
    /\ LET newBest == IsNewBest(d, bestScore)
           best == IF newBest THEN Len(trials) + 1 ELSE bestResult
           stop == IsExcellent(d) \/ strategyIdx = Len(Strategies)
       IN /\ bestResult' = best
          /\ bestScore' = IF newBest THEN ScoreSquared(d) ELSE bestScore
          /\ IF ~stop
             THEN /\ strategyIdx' = strategyIdx + 1
                  /\ jobProgress' = 0
                  /\ jobLogs' = 0
                  /\ UNCHANGED <<oPc, reported, oResult>>
             ELSE /\ oPc' = "done"
                  /\ UNCHANGED <<strategyIdx, jobProgress, jobLogs>>
                  /\ IF best = 0
                     THEN /\ oResult' = OcrFailure
                          /\ UNCHANGED reported
                     ELSE /\ reported' = Report(reported, 70)
                          /\ oResult' =
                               LET b == trials'[best]
                               IN [text |-> TextOf(b),
                                   confidence |-> b.confidence,
                                   success |-> b.len >= MinTextLength
                                               /\ b.confidence >= MinConfidence]
    /\ UNCHANGED hasCallback

\* worker.recognize rejects: the catch block of lines 129-137.
RecognizeRejects ==
    /\ oPc = "recognizing"
    /\ oPc' = "done"
    /\ oResult' = OcrFailure
    /\ UNCHANGED <<hasCallback, strategyIdx, jobProgress, jobLogs, reported, trials,
                   bestResult, bestScore>>

InitOcr ==
    /\ oPc = "idle"
    /\ hasCallback \in BOOLEAN
    /\ strategyIdx = 0
    /\ jobProgress = 0
    /\ jobLogs = 0
    /\ reported = <<>>
    /\ trials = <<>>
    /\ bestResult = 0
    /\ bestScore = -1
    /\ oResult = NoResult

\* The recogniser before any call.
OcrIdle ==
    /\ oPc = "idle"
    /\ hasCallback = TRUE
    /\ strategyIdx = 0
    /\ jobProgress = 0
    /\ jobLogs = 0
    /\ reported = <<>>
    /\ trials = <<>>
    /\ bestResult = 0
    /\ bestScore = -1
    /\ oResult = NoResult

(***************************************************************************)
(* Bill document, bills.* methods and the derived expense views            *)
(***************************************************************************)

\* Most items a bill holds.
MaxItems == 2

UserIds == {"u1", "u2"}
ItemIds == 1..MaxItems

\* ---- exact rationals, in cents ----

Abs(x) == IF x < 0 THEN -x ELSE x

RECURSIVE GCD(_, _)
GCD(a, b) == IF b = 0 THEN a ELSE GCD(b, a % b)

\* n / d in lowest terms, d > 0
Rat(n, d) == LET g == GCD(Abs(n), d) IN [n |-> n \div g, d |-> d \div g]

RAdd(a, b) == Rat(a.n * b.d + b.n * a.d, a.d * b.d)

RECURSIVE SumRat(_)
SumRat(seq) == IF seq = <<>> THEN Rat(0, 1) ELSE RAdd(Head(seq), SumRat(Tail(seq)))

RECURSIVE SumInt(_)
SumInt(seq) == IF seq = <<>> THEN 0 ELSE Head(seq) + SumInt(Tail(seq))

\* Number(x.toFixed(2)) for x = a cents: the nearest whole cent. A value
\* that lies exactly half way between two cents in decimal is not exactly
\* half way as a binary double, and which side it falls on depends on the
\* value; up says which way such a value goes.
ToFixed2(a, up) ==
    LET q == a.n \div a.d
        r == a.n % a.d
    IN IF 2 * r > a.d THEN q + 1
       ELSE IF 2 * r < a.d THEN q
       ELSE IF up THEN q + 1 ELSE q

\* ---- items ----

Share(u, t, v) == [userId |-> u, type |-> t, value |-> v]

PercentShareInputs ==
    { <<Share("u1", "percent", 60), Share("u2", "percent", 30)>>,
      <<Share("u1", "percent", 66), Share("u2", "percent", 44)>> }

FixedShareInputs ==
    { <<Share("u1", "fixed", 25), Share("u2", "fixed", 25)>> }

ShareUsers(shares) == {shares[k].userId : k \in 1..Len(shares)}

\* An odd number of cents, so that an even split is not in whole cents.
ItemPrice == 101

\* The items a client passes to bills.addItem and bills.updateItems, less
\* their id: an equal split among nobody or everybody, percent splits
\* whose percentages sum to 90 and to 110, a fixed split that leaves half
\* the price unallocated, and an item sent without shares and without
\* userIds (the method checks only the name and the price). hasUserIds and
\* hasShares say whether the property is there at all; userIds is {} and
\* shares is <<>> when it is not.
ItemInputs ==
    [price : {ItemPrice}, hasUserIds : {TRUE}, userIds : {{}, UserIds},
     splitType : {"equal"}, hasShares : {TRUE}, shares : {<<>>}]
    \cup
    { [price |-> ItemPrice, hasUserIds |-> TRUE, userIds |-> ShareUsers(sh),
       splitType |-> "percent", hasShares |-> TRUE, shares |-> sh] : sh \in PercentShareInputs }
    \cup
    { [price |-> ItemPrice, hasUserIds |-> TRUE, userIds |-> ShareUsers(sh),
       splitType |-> "fixed", hasShares |-> TRUE, shares |-> sh] : sh \in FixedShareInputs }
    \cup
    { [price |-> ItemPrice, hasUserIds |-> FALSE, userIds |-> {},
       splitType |-> "percent", hasShares |-> FALSE, shares |-> <<>>] }

WithId(shape, id) ==
    [id |-> id, price |-> shape.price, hasUserIds |-> shape.hasUserIds,
     userIds |-> shape.userIds, splitType |-> shape.splitType, hasShares |-> shape.hasShares, shares |-> shape.shares]

\* Date.now()-based ids: an id no item of the bill has.
FreshIds(its) == ItemIds \ {its[k].id : k \in 1..Len(its)}

\* Ids only tell items apart: a new item takes the least free one.
NextId(free) == CHOOSE x \in free : \A y \in free : x <= y

\* createItem / pushItem: an equal split among the given users
createItem(price, uids, id) ==
    [id |-> id, price |-> price, hasUserIds |-> TRUE, userIds |-> uids, splitType |-> "equal",
     hasShares |-> FALSE, shares |-> <<>>]

\* What parseReceiptText hands to persistParsedReceipt: the item prices, the
\* subtotal and total read off the receipt (<<>> when not found), the tax.
ParsedReceipts ==
    { [prices |-> <<100>>, receiptTotal |-> <<105>>, taxAmount |-> 0, totalAmount |-> <<100>>],
      [prices |-> <<100>>, receiptTotal |-> <<>>, taxAmount |-> 100, totalAmount |-> <<206>>],
      [prices |-> <<100, 100>>, receiptTotal |-> <<206>>, taxAmount |-> 0, totalAmount |-> <<>>] }

TaxInputs == {0, 100}

MismatchTolerance == 5

\* Math.abs(computed - declared) > 0.05 on doubles, for amounts of whole
\* cents. A gap of exactly five cents is not exactly 0.05 as a difference of
\* doubles (1.05 - 1 is 0.050000000000000044, 0.15 - 0.1 is
\* 0.04999999999999999), and which side it falls on depends on the two
\* values; over says on which side such a gap falls.
ExceedsTolerance(computed, declared, over) ==
    LET gap == Abs(computed - declared)
    IN IF gap > MismatchTolerance THEN TRUE
       ELSE IF gap < MismatchTolerance THEN FALSE
       ELSE over

\* ---- computeExpenseSummary ----

SharesOfType(item, t) == SelectSeq(item.shares, LAMBDA sh : sh.type = t)

IsPercentItem(item) == item.splitType = "percent" /\ item.hasShares
IsFixedItem(item) == item.splitType = "fixed" /\ item.hasShares

SumPercentUnscaled(item) == 100

\* Line 417: the sum of the percent shares, 100 when that sum is 0
SumPercent(item) ==
    LET sum == SumInt([k \in 1..Len(SharesOfType(item, "percent")) |->
                          SharesOfType(item, "percent")[k].value])
    IN IF sum = 0 THEN 100 ELSE sum

FixedExtraDropped(item) == Rat(0, 1)

\* Lines 425-432: what each fixed share gets on top of its value
FixedExtra(item) ==
    LET fixedShares == SharesOfType(item, "fixed")
        allocated == SumInt([k \in 1..Len(fixedShares) |-> fixedShares[k].value])
        remainder == IF item.price - allocated > 0 THEN item.price - allocated ELSE 0
    IN IF remainder > 0 /\ Len(fixedShares) > 0
       THEN Rat(remainder, Len(fixedShares))
       ELSE Rat(0, 1)

\* The users item makes an entry for in perUserMap.
ItemKeys(item) ==
    IF IsPercentItem(item) THEN ShareUsers(SharesOfType(item, "percent"))
    ELSE IF IsFixedItem(item) THEN ShareUsers(SharesOfType(item, "fixed"))
    ELSE item.userIds

\* What item adds to perUserMap[u] (lines 415-440).
ItemCredit(item, u) ==
    IF IsPercentItem(item)
    THEN LET ps == SharesOfType(item, "percent")
         IN SumRat([k \in 1..Len(ps) |->
                      IF ps[k].userId = u
                      THEN Rat(item.price * ps[k].value, SumPercent(item))
                      ELSE Rat(0, 1)])
    ELSE IF IsFixedItem(item)
    THEN LET fs == SharesOfType(item, "fixed")
         IN SumRat([k \in 1..Len(fs) |->
                      IF fs[k].userId = u
                      THEN RAdd(Rat(fs[k].value, 1), FixedExtra(item))
                      ELSE Rat(0, 1)])
    ELSE IF u \in item.userIds
    THEN Rat(item.price, Cardinality(item.userIds))
    ELSE Rat(0, 1)

\* perUserMap before rounding
PerUserRaw(its) ==
    [u \in UNION {ItemKeys(its[k]) : k \in 1..Len(its)} |->
        SumRat([k \in 1..Len(its) |-> ItemCredit(its[k], u)])]

\* Line 437: item.userIds.length is read when neither share branch is taken
ReadsUserIds(item) == ~IsPercentItem(item) /\ ~IsFixedItem(item)

\* The forEach callback throws a TypeError on an item whose userIds it reads
\* and that has none.
ThrowsTypeError(its) ==
    \E k \in 1..Len(its) : ReadsUserIds(its[k]) /\ ~its[k].hasUserIds

\* thrown: the call ends in a TypeError and returns nothing; otherwise
\* grandTotal and perUser are the summary it returns.
computeExpenseSummary(its, up) ==
    LET perUserMap == PerUserRaw(its)
    IN [thrown |-> ThrowsTypeError(its),
        grandTotal |-> SumInt([k \in 1..Len(its) |-> its[k].price]),
        perUser |-> [u \in DOMAIN perUserMap |-> ToFixed2(perUserMap[u], up)]]

\* ---- finalPerUserRows, lines 89-119: the per-user totals ----

\* Line 97
BillTotal(summary) ==
    IF calculatedWithTax # <<>>
    THEN calculatedWithTax[1]
    ELSE summary.grandTotal + taxAmount

\* totalRaw - Math.floor(totalRaw), totalRaw in dollars, as a fraction num/den
DollarFraction(raw) == [num |-> raw.n % (100 * raw.d), den |-> 100 * raw.d]

FractionLess(a, b) == a.num * b.den < b.num * a.den

\* Lines 103-113: the rows before the residual is placed
RowsBeforeCorrection(summary, up) ==
    [i \in 1..Len(users) |->
        LET u == users[i]
            itemsSubtotal == IF u \in DOMAIN summary.perUser THEN summary.perUser[u] ELSE 0
            totalRaw == RAdd(Rat(itemsSubtotal, 1), Rat(taxAmount, Len(users)))
        IN [userId |-> u, itemsSubtotal |-> itemsSubtotal, totalRaw |-> totalRaw,
            totalRounded |-> ToFixed2(totalRaw, up)]]

\* Line 117: sorted[0], the first row with the largest fraction
ResidualRow(rows) ==
    CHOOSE i \in 1..Len(rows) :
        /\ \A j \in 1..Len(rows) :
              ~FractionLess(DollarFraction(rows[i].totalRaw), DollarFraction(rows[j].totalRaw))
        /\ \A j \in 1..(i - 1) :
              FractionLess(DollarFraction(rows[j].totalRaw), DollarFraction(rows[i].totalRaw))

finalPerUserRows(up) ==
    IF users = <<>> THEN <<>>
    ELSE LET summary == computeExpenseSummary(items, up)
             rows == RowsBeforeCorrection(summary, up)
             sumRounded == SumInt([i \in 1..Len(rows) |-> rows[i].totalRounded])
             diff == BillTotal(summary) - sumRounded
         IN IF Abs(diff) >= 1
            THEN [rows EXCEPT ![ResidualRow(rows)].totalRounded = @ + diff]
            ELSE rows

\* ---- finalPerUserRows, lines 120-139: the integer percentages ----

\* Lines 121-127: _exactShare of every row, in percent
ExactShares(rows, summary) ==
    LET billTotal == BillTotal(summary)
        ofTotal == [i \in 1..Len(rows) |->
                      IF billTotal > 0 THEN Rat(rows[i].totalRounded * 100, billTotal)
                      ELSE Rat(0, 1)]
    IN IF billTotal > 0 /\ Len(rows) > 0 /\ \A i \in 1..Len(rows) : ofTotal[i] = Rat(0, 1)
       THEN [i \in 1..Len(rows) |->
               Rat(rows[i].itemsSubtotal * 100,
                   IF summary.grandTotal = 0 THEN 100 ELSE summary.grandTotal)]
       ELSE ofTotal

\* (totalRounded / billTotal) * 100 on doubles: a share that is a whole
\* number k of percent with k / 100 not a binary fraction may come out
\* just below k (0.29 / 1 * 100 is 28.999999999999996); under says whether
\* it does.
JustBelow(share, under) == under /\ share.d = 1 /\ share.n % 25 # 0

\* Line 128: Math.floor(r._exactShare)
FloorPercent(share, under) ==
    IF JustBelow(share, under) THEN share.n - 1 ELSE share.n \div share.d

\* Line 131: r._exactShare - floorPercents[i]; a share just below a whole
\* number has a remainder just below 1, above every other remainder
Remainder(share, under) ==
    IF JustBelow(share, under) THEN Rat(1, 1)
    ELSE Rat(share.n - (share.n \div share.d) * share.d, share.d)

RemainingNone(floorPercents) == 0

\* Lines 129-130: remaining = 100 - allocated
Remaining(floorPercents) == 100 - SumInt(floorPercents)

\* Lines 131-135: the place of row i in remainders, sorted by falling
\* remainder, rows of equal remainder in their order; the first
\* `remaining` rows get one percent more
sharePercentageInt(rows, summary, under) ==
    LET shares == ExactShares(rows, summary)
        floorPercents == [i \in 1..Len(rows) |-> FloorPercent(shares[i], under)]
        remainder == [i \in 1..Len(rows) |-> Remainder(shares[i], under)]
        before(j, i) == \/ remainder[j].n * remainder[i].d > remainder[i].n * remainder[j].d
                        \/ (remainder[j] = remainder[i] /\ j < i)
        place == [i \in 1..Len(rows) |-> Cardinality({j \in 1..Len(rows) : before(j, i)})]
        remaining == Remaining(floorPercents)
    IN [i \in 1..Len(rows) |-> floorPercents[i] + (IF place[i] < remaining THEN 1 ELSE 0)]

\* ---- methods ----

NoReceipt == [scanned |-> FALSE]

\* bills.addUser: the name must be new to the bill; a user's name stands
\* with its id here.
BillsAddUser(u) ==
    /\ \A i \in 1..Len(users) : users[i] # u
    /\ users' = Append(users, u)
    /\ UNCHANGED <<items, taxAmount, calculatedWithTax, receipt>>

\* bills.removeUser: i.userIds.filter throws on an item without userIds,
\* before anything is written
BillsRemoveUser(u) ==
    /\ \A k \in 1..Len(items) : items[k].hasUserIds
    /\ users' = SelectSeq(users, LAMBDA x : x # u)
    /\ items' = [k \in 1..Len(items) |-> [items[k] EXCEPT !.userIds = @ \ {u}]]
    /\ UNCHANGED <<taxAmount, calculatedWithTax, receipt>>

\* bills.addItem
BillsAddItem(shape, id) ==
    /\ shape.price > 0
    /\ Len(items) < MaxItems
    /\ id = NextId(FreshIds(items))
    /\ items' = Append(items, WithId(shape, id))
    /\ UNCHANGED <<users, taxAmount, calculatedWithTax, receipt>>

\* bills.removeItem
BillsRemoveItem(id) ==
    /\ items' = SelectSeq(items, LAMBDA it : it.id # id)
    /\ UNCHANGED <<users, taxAmount, calculatedWithTax, receipt>>

\* bills.updateItems, called with the bill's items after one of them was
\* edited.
BillsUpdateItems(k, shape) ==
    /\ k \in 1..Len(items)
    /\ items' = [items EXCEPT ![k] = WithId(shape, items[k].id)]
    /\ UNCHANGED <<users, taxAmount, calculatedWithTax, receipt>>

\* bills.updateTax
BillsUpdateTax(t) ==
    /\ t >= 0
    /\ taxAmount' = t
    /\ UNCHANGED <<users, items, calculatedWithTax, receipt>>

\* bills.toggleUserOnItem
BillsToggleUserOnItem(id, u) ==
    /\ \E k \in 1..Len(items) : items[k].id = id
    /\ items' = [k \in 1..Len(items) |->
                   IF items[k].id = id
                   THEN [items[k] EXCEPT !.hasUserIds = TRUE,
                                         !.userIds = IF u \in @ THEN @ \ {u} ELSE @ \cup {u}]
                   ELSE items[k]]
    /\ UNCHANGED <<users, taxAmount, calculatedWithTax, receipt>>

\* The items parseReceiptText makes of the prices: each split equally among
\* the bill's users.
RECURSIVE ParsedItems(_, _, _)
ParsedItems(prices, uids, free) ==
    IF prices = <<>> THEN <<>>
    ELSE LET id == NextId(free)
         IN <<createItem(Head(prices), uids, id)>>
            \o ParsedItems(Tail(prices), uids, free \ {id})

\* ocr.extract from parseReceiptText's result on: nothing is stored for a
\* parse without items, else persistParsedReceipt.
OcrExtract(parsed, overSubtotal, overTotal) ==
    /\ Len(parsed.prices) > 0
    /\ Len(items) + Len(parsed.prices) <= MaxItems
    /\ LET newItems == ParsedItems(parsed.prices, {users[i] : i \in 1..Len(users)},
                                   FreshIds(items))
           calculatedTotal == SumInt(parsed.prices)
           withTax == calculatedTotal + parsed.taxAmount
       IN /\ items' = items \o newItems
          /\ taxAmount' = parsed.taxAmount
          /\ calculatedWithTax' = <<withTax>>
          /\ receipt' =
               [scanned |-> TRUE,
                receiptTotal |-> parsed.receiptTotal,
                calculatedTotal |-> calculatedTotal,
                totalMismatch |-> /\ parsed.receiptTotal # <<>>
                                  /\ parsed.receiptTotal[1] # 0
                                  /\ ExceedsTolerance(calculatedTotal,
                                                      parsed.receiptTotal[1], overSubtotal),
                totalAmount |-> parsed.totalAmount,
                totalWithTaxMismatch |-> /\ parsed.totalAmount # <<>>
                                         /\ parsed.totalAmount[1] # 0
                                         /\ ExceedsTolerance(withTax,
                                                             parsed.totalAmount[1], overTotal)]
    /\ UNCHANGED users

\* A bill as bills.insert stores it from the upload flows: no items yet.
InitBill ==
    /\ users = <<>>
    /\ items = <<>>
    /\ taxAmount = 0
    /\ calculatedWithTax = <<>>
    /\ receipt = NoReceipt

(***************************************************************************)
(* Receipt upload: handleFileUpload of the dashboard page and of the       *)
(* layout. An action is the code run between two awaits.                   *)
(***************************************************************************)

\* Most progress callbacks recognizeText makes during one upload.
MaxCallbacks == 3

Flows == {"dashboard", "layout"}

\* The percentages recognizeText passes to its callback (ocrService.js):
\* 10, 15, 20, the logger's values and 70.
CallbackPercents == {10, 15, 20, 70} \cup {LoggerPercent(p) : p \in ProgressSteps}

IntervalStep == 15
IntervalCeiling == 85
FallbackPercent == 20
MinAfterOcr == 75

\* tpl.ocrProgress.set(v) for each v of vs in turn, while ocrProcessing
SetProgress(vs) ==
    /\ ocrProgress' = vs[Len(vs)]
    /\ progressLog' = progressLog \o vs

FinishKeepsLock ==
    /\ ocrProcessing' = FALSE
    /\ ocrProgress' = 0
    /\ actionLock' = actionLock
    /\ uPc' = "idle"
    /\ UNCHANGED <<flow, callbacks>>

\* ocrProcessing.set(false); ocrProgress.set(0); actionLock = false: the
\* end of every path
Finish ==
    /\ ocrProcessing' = FALSE
    /\ ocrProgress' = 0
    /\ actionLock' = FALSE
    /\ uPc' = "idle"
    /\ UNCHANGED <<flow, callbacks>>

\* The handler up to the FileReader await, for a valid image while no
\* upload is processing.
HandleFileUpload(f) ==
    /\ uPc = "idle"
    /\ ~ocrProcessing
    /\ flow' = f
    /\ ocrProcessing' = TRUE
    /\ ocrProgress' = 5
    /\ progressLog' = <<0, 5>>
    /\ callbacks' = 0
    /\ actionLock' = TRUE
    /\ billsCreated' = 0
    /\ navigated' = FALSE
    /\ uPc' = "reading"

\* The image was read: the dashboard starts recognizeText, the layout
\* compresses the image first.
FileRead ==
    /\ uPc = "reading"
    /\ SetProgress(<<10>>)
    /\ uPc' = IF flow = "layout" THEN "compressing" ELSE "recognizing"
    /\ UNCHANGED <<flow, ocrProcessing, callbacks, actionLock, billsCreated, navigated>>

\* layout: compressImage resolved; bills.insert is called
ImageCompressed ==
    /\ uPc = "compressing"
    /\ SetProgress(<<15, 20>>)
    /\ uPc' = "insertingForVision"
    /\ UNCHANGED <<flow, ocrProcessing, callbacks, actionLock, billsCreated, navigated>>

\* layout: the bill was created; the interval starts and
\* ocr.extractFromImage is called
BillInsertedForVision ==
    /\ uPc = "insertingForVision"
    /\ SetProgress(<<30>>)
    /\ uPc' = "analyzing"
    /\ billsCreated' = billsCreated + 1
    /\ UNCHANGED <<flow, ocrProcessing, callbacks, actionLock, navigated>>

\* layout: the 800 ms interval fires while ocr.extractFromImage is pending
ProgressInterval ==
    /\ uPc = "analyzing"
    /\ ocrProgress < IntervalCeiling
    /\ SetProgress(<<ocrProgress + IntervalStep>>)
    /\ UNCHANGED <<flow, uPc, ocrProcessing, callbacks, actionLock, billsCreated, navigated>>

\* layout: ocr.extractFromImage resolved
VisionExtracted ==
    /\ uPc = "analyzing"
    /\ progressLog' = Append(progressLog, 100)
    /\ Finish
    /\ navigated' = TRUE
    /\ UNCHANGED billsCreated

\* layout: ocr.extractFromImage rejected; the handler falls back to
\* recognizeText
VisionFailed ==
    /\ uPc = "analyzing"
    /\ SetProgress(<<FallbackPercent>>)
    /\ uPc' = "recognizing"
    /\ UNCHANGED <<flow, ocrProcessing, callbacks, actionLock, billsCreated, navigated>>

\* The callback given to recognizeText, called with percentage p
ProgressCallback(p) ==
    /\ uPc = "recognizing"
    /\ callbacks < MaxCallbacks
    /\ callbacks' = callbacks + 1
    /\ IF p > ocrProgress
       THEN SetProgress(<<p>>)
       ELSE UNCHANGED <<ocrProgress, progressLog>>
    /\ UNCHANGED <<flow, uPc, ocrProcessing, actionLock, billsCreated, navigated>>

\* recognizeText resolved: with a failure the upload ends, else
\* bills.insert is called
TextRecognized(success) ==
    /\ uPc = "recognizing"
    /\ IF success
       THEN /\ IF ocrProgress < MinAfterOcr
               THEN SetProgress(<<MinAfterOcr>>)
               ELSE UNCHANGED <<ocrProgress, progressLog>>
            /\ uPc' = "inserting"
            /\ UNCHANGED <<flow, ocrProcessing, callbacks, actionLock>>
       ELSE Finish /\ UNCHANGED progressLog
    /\ UNCHANGED <<billsCreated, navigated>>

\* bills.insert resolved; ocr.extract is called
BillInserted ==
    /\ uPc = "inserting"
    /\ SetProgress(<<85>>)
    /\ uPc' = "extracting"
    /\ billsCreated' = billsCreated + 1
    /\ UNCHANGED <<flow, ocrProcessing, callbacks, actionLock, navigated>>

\* ocr.extract resolved
ItemsExtracted ==
    /\ uPc = "extracting"
    /\ progressLog' = Append(progressLog, 100)
    /\ Finish
    /\ navigated' = TRUE
    /\ UNCHANGED billsCreated

\* An awaited promise rejected (other than ocr.extractFromImage): the
\* enclosing catch ends the upload.
UploadRejected ==
    /\ uPc \in {"reading", "compressing", "insertingForVision", "inserting", "extracting"}
    /\ Finish
    /\ UNCHANGED <<progressLog, billsCreated, navigated>>

InitUpload ==
    /\ flow \in Flows
    /\ uPc = "idle"
    /\ ocrProcessing = FALSE
    /\ ocrProgress = 0
    /\ progressLog = <<>>
    /\ callbacks = 0
    /\ actionLock = FALSE
    /\ billsCreated = 0
    /\ navigated = FALSE

UploadIdle ==
    /\ flow = "dashboard"
    /\ uPc = "idle"
    /\ ocrProcessing = FALSE
    /\ ocrProgress = 0
    /\ progressLog = <<>>
    /\ callbacks = 0
    /\ actionLock = FALSE
    /\ billsCreated = 0
    /\ navigated = FALSE

(***************************************************************************)
(* Receipt text parsers                                                    *)
(*                                                                         *)
(* The store-specific sub-parsers and the generic sub-parser behind        *)
(* parseReceiptText (unnamed/part_012), the utilities they share           *)
(* (api/bills.ts 561-826) and the parser ocr.extract calls                 *)
(* (api/bills.ts 156-361, "legacy" below).  A receipt is a sequence of     *)
(* lines drawn from ReceiptLines.  Each regular expression of the source    *)
(* is an operator holding its result on every line of ReceiptLines; the     *)
(* control flow around the expressions is translated statement by          *)
(* statement.  The sub-parser is an input: it stands for the store name    *)
(* detectStoreName finds in the receipt header, which is not among the     *)
(* lines.  Items carry two fields the source does not have, nameLine and   *)
(* priceLine: the indexes of the lines their name and price were read from.*)
(***************************************************************************)

\* Longest receipt text, in lines.
MaxLines == 3

ReceiptLines ==
    {"MILK 2.99",                       \* an item and its price
     "BANANAS",                         \* a name without a price
     "2.38 lb @ 1.0 lb /1.12 2.67",     \* weight calculation line
     "2.38 1b @ 1.0 lb /1.12 2.67",     \* the same line with lb read as 1b
     "3 AT 1 FOR 0.77 2.31",            \* quantity calculation line
     "SUBTOTAL 5.66",
     "SALES TAX 0.21",
     "TOTAL 5.87",
     "GRAND TOTAL 5.87",
     "0000360878 /1491866 3.60-",       \* discount line
     "RICE 1 $3.50 N"}                  \* name, quantity, price, tax letter

Texts == UNION {[1..n -> ReceiptLines] : n \in 1..MaxLines}

SubParsers == {"walmart", "halal", "costco", "generic"}

\* skipLine: the shared skip-classifier (bills.ts 574-598).
skipLine(line) ==
    line \in {"2.38 lb @ 1.0 lb /1.12 2.67",
             "3 AT 1 FOR 0.77 2.31",
             "SALES TAX 0.21"}

\* upperLine.match(/SUB.*?TOTAL/i) (bills.ts 683).
IsSubtotalLine(line) ==
    line \in {"SUBTOTAL 5.66"}

\* upperLine.match(/TAX/i) && !upperLine.match(/TOTAL|SUBTOTAL/i) (bills.ts 691).
IsTaxLine(line) ==
    line \in {"SALES TAX 0.21"}

\* The total-line expression of extractTotalsFromLines (bills.ts 699).
IsTotalLine(line) ==
    line \in {"TOTAL 5.87",
             "GRAND TOTAL 5.87"}

\* line.match(/[$]?(\d+[.,]\d{2})/): the first amount on the line, in cents
\* (bills.ts 684, 692, 700).
FirstAmount(line) ==
    CASE line = "MILK 2.99" -> <<299>>
      [] line = "2.38 lb @ 1.0 lb /1.12 2.67" -> <<238>>
      [] line = "2.38 1b @ 1.0 lb /1.12 2.67" -> <<238>>
      [] line = "3 AT 1 FOR 0.77 2.31" -> <<77>>
      [] line = "SUBTOTAL 5.66" -> <<566>>
      [] line = "SALES TAX 0.21" -> <<21>>
      [] line = "TOTAL 5.87" -> <<587>>
      [] line = "GRAND TOTAL 5.87" -> <<587>>
      [] line = "0000360878 /1491866 3.60-" -> <<360>>
      [] line = "RICE 1 $3.50 N" -> <<350>>
      [] OTHER -> <<>>

\* extractPriceFromLine: the rightmost price the four patterns find, not at
\* index 0, above 0 and below 1000 (bills.ts 719-755).
extractPriceFromLine(line) ==
    CASE line = "MILK 2.99" -> <<299>>
      [] line = "2.38 lb @ 1.0 lb /1.12 2.67" -> <<267>>
      [] line = "2.38 1b @ 1.0 lb /1.12 2.67" -> <<267>>
      [] line = "3 AT 1 FOR 0.77 2.31" -> <<231>>
      [] line = "SUBTOTAL 5.66" -> <<566>>
      [] line = "SALES TAX 0.21" -> <<21>>
      [] line = "TOTAL 5.87" -> <<587>>
      [] line = "GRAND TOTAL 5.87" -> <<587>>
      [] line = "0000360878 /1491866 3.60-" -> <<360>>
      [] line = "RICE 1 $3.50 N" -> <<350>>
      [] OTHER -> <<>>

\* The summary-line expression of parseWalmartReceipt (part_012 79).
WalmartSummaryLine(line) ==
    line \in {"SUBTOTAL 5.66",
             "TOTAL 5.87"}

\* isWeightCalcLine / isWeightLine (part_012 87, 104).
isWeightCalcLine(line) ==
    line \in {"2.38 lb @ 1.0 lb /1.12 2.67",
             "2.38 1b @ 1.0 lb /1.12 2.67"}

\* isQtyCalcLine / isQtyLine (part_012 88, 105).
isQtyCalcLine(line) ==
    line \in {"3 AT 1 FOR 0.77 2.31"}

\* nextLine.match(/(\d+\.\d{2})/g): the last price on a calculation line
\* (part_012 109-111).
LastPrice(line) ==
    CASE line = "MILK 2.99" -> <<299>>
      [] line = "2.38 lb @ 1.0 lb /1.12 2.67" -> <<267>>
      [] line = "2.38 1b @ 1.0 lb /1.12 2.67" -> <<267>>
      [] line = "3 AT 1 FOR 0.77 2.31" -> <<231>>
      [] line = "SUBTOTAL 5.66" -> <<566>>
      [] line = "SALES TAX 0.21" -> <<21>>
      [] line = "TOTAL 5.87" -> <<587>>
      [] line = "GRAND TOTAL 5.87" -> <<587>>
      [] line = "0000360878 /1491866 3.60-" -> <<360>>
      [] line = "RICE 1 $3.50 N" -> <<350>>
      [] OTHER -> <<>>

\* line.match(/\s+(\d+\.\d{2})\s*$/) of parseWalmartReceipt (part_012 130-135).
WalmartPrice(line) ==
    CASE line = "MILK 2.99" -> <<299>>
      [] line = "2.38 lb @ 1.0 lb /1.12 2.67" -> <<267>>
      [] line = "2.38 1b @ 1.0 lb /1.12 2.67" -> <<267>>
      [] line = "3 AT 1 FOR 0.77 2.31" -> <<231>>
      [] line = "SUBTOTAL 5.66" -> <<566>>
      [] line = "SALES TAX 0.21" -> <<21>>
      [] line = "TOTAL 5.87" -> <<587>>
      [] line = "GRAND TOTAL 5.87" -> <<587>>
      [] OTHER -> <<>>

\* The summary-line expression of parseHalalMarketReceipt (part_012 202).
HalalSummaryLine(line) ==
    line \in {"SUBTOTAL 5.66",
             "TOTAL 5.87"}

\* line.match(/[$\u00a7]?(\d+\.\d{2})\s*[NT]\s*$/i) (part_012 206-209).
HalalPrice(line) ==
    CASE line = "RICE 1 $3.50 N" -> <<350>>
      [] OTHER -> <<>>

\* prevHasPrice (part_012 223).
PrevHasPrice(line) ==
    line \in {"MILK 2.99",
             "2.38 lb @ 1.0 lb /1.12 2.67",
             "2.38 1b @ 1.0 lb /1.12 2.67",
             "3 AT 1 FOR 0.77 2.31",
             "SUBTOTAL 5.66",
             "SALES TAX 0.21",
             "TOTAL 5.87",
             "GRAND TOTAL 5.87",
             "RICE 1 $3.50 N"}

\* prevUpper.match(/^(PRODUCT|QTY|AMT|CUSTOMER|CASHIER|REG)/i) (part_012 224):
\* no line of ReceiptLines.
PrevIsHeaderWord(line) ==
    line \in {}

\* The summary-line expression of parseCostcoReceipt (part_012 284).
CostcoSkipLine(line) ==
    line \in {"SUBTOTAL 5.66",
             "TOTAL 5.87"}

\* discountMatch: line.match(/(\d+\.\d{2})-\s*$/) (part_012 289-292).
CostcoDiscount(line) ==
    CASE line = "0000360878 /1491866 3.60-" -> <<360>>
      [] OTHER -> <<>>

\* /^\d+\s*[@E]\s*\d+\.\d{2}\s*$/.test(line) (part_012 302): no line of
\* ReceiptLines.
CostcoQtyLine(line) ==
    line \in {}

\* line.match(/\s+(\d+\.\d{2})\s*$/) of parseCostcoReceipt (part_012 307-312).
CostcoPrice(line) ==
    CASE line = "MILK 2.99" -> <<299>>
      [] line = "2.38 lb @ 1.0 lb /1.12 2.67" -> <<267>>
      [] line = "2.38 1b @ 1.0 lb /1.12 2.67" -> <<267>>
      [] line = "3 AT 1 FOR 0.77 2.31" -> <<231>>
      [] line = "SUBTOTAL 5.66" -> <<566>>
      [] line = "SALES TAX 0.21" -> <<21>>
      [] line = "TOTAL 5.87" -> <<587>>
      [] line = "GRAND TOTAL 5.87" -> <<587>>
      [] OTHER -> <<>>

\* The summary-line expression of parseGenericReceipt (part_012 377).
GenericSummaryLine(line) ==
    line \in {"SUBTOTAL 5.66",
             "TOTAL 5.87"}

\* hasPrice of the next line (part_012 397).
NextHasPrice(line) ==
    line \in {"MILK 2.99",
             "2.38 lb @ 1.0 lb /1.12 2.67",
             "2.38 1b @ 1.0 lb /1.12 2.67",
             "3 AT 1 FOR 0.77 2.31",
             "SUBTOTAL 5.66",
             "SALES TAX 0.21",
             "TOTAL 5.87",
             "GRAND TOTAL 5.87",
             "0000360878 /1491866 3.60-",
             "RICE 1 $3.50 N"}

\* startsLower || endsWithUnits (part_012 399-400): no line of ReceiptLines.
StartsLowerOrEndsWithUnits(line) ==
    line \in {}

\* skipLine of the legacy parser (bills.ts 249-262).
legacySkipLine(line) ==
    line \in {"SALES TAX 0.21"}

\* subtotalMatch && line.match(/sub|total|se.*?dil/i) (bills.ts 171-176).
LegacySubtotal(line) ==
    CASE line = "SUBTOTAL 5.66" -> <<566>>
      [] line = "TOTAL 5.87" -> <<587>>
      [] line = "GRAND TOTAL 5.87" -> <<587>>
      [] OTHER -> <<>>

\* taxMatch (bills.ts 181-184).
LegacyTax(line) ==
    CASE line = "SALES TAX 0.21" -> <<21>>
      [] OTHER -> <<>>

\* totalMatch && !line.match(/sub|se.*?dil/i) (bills.ts 189-194).
LegacyTotal(line) ==
    CASE line = "TOTAL 5.87" -> <<587>>
      [] line = "GRAND TOTAL 5.87" -> <<587>>
      [] OTHER -> <<>>

\* A payment line with an amount above 0 (bills.ts 198-206): no line of
\* ReceiptLines holds debit, paid, amount or cash.
LegacyPayment(line) ==
    <<>>

\* The line the second pass of the legacy parser stops at (bills.ts 225).
LegacySummaryLine(line) ==
    line \in {"SUBTOTAL 5.66",
             "TOTAL 5.87"}

\* foundPrice of tryExtractItem: the rightmost price above 0.10 and below
\* 2000 (bills.ts 276-318).
LegacyPrice(line) ==
    CASE line = "MILK 2.99" -> <<299>>
      [] line = "2.38 lb @ 1.0 lb /1.12 2.67" -> <<267>>
      [] line = "2.38 1b @ 1.0 lb /1.12 2.67" -> <<267>>
      [] line = "3 AT 1 FOR 0.77 2.31" -> <<231>>
      [] line = "SUBTOTAL 5.66" -> <<566>>
      [] line = "SALES TAX 0.21" -> <<21>>
      [] line = "TOTAL 5.87" -> <<587>>
      [] line = "GRAND TOTAL 5.87" -> <<587>>
      [] line = "0000360878 /1491866 3.60-" -> <<360>>
      [] line = "RICE 1 $3.50 N" -> <<350>>
      [] OTHER -> <<>>

\* prevLine.match(/\d+\.\d{2}/) (bills.ts 338).
HasDecimalAmount(line) ==
    line \in {"MILK 2.99",
             "2.38 lb @ 1.0 lb /1.12 2.67",
             "2.38 1b @ 1.0 lb /1.12 2.67",
             "3 AT 1 FOR 0.77 2.31",
             "SUBTOTAL 5.66",
             "SALES TAX 0.21",
             "TOTAL 5.87",
             "GRAND TOTAL 5.87",
             "0000360878 /1491866 3.60-",
             "RICE 1 $3.50 N"}

\* The name read from a line whose price is on the next line (part_012 114-118).
WalmartNameOnly(line) ==
    CASE line = "MILK 2.99" -> "MILK 2.99"
      [] line = "BANANAS" -> "BANANAS"
      [] line = "2.38 lb @ 1.0 lb /1.12 2.67" -> ".38 lb @ 1.0 lb /1.12 2.67"
      [] line = "2.38 1b @ 1.0 lb /1.12 2.67" -> ".38 1b @ 1.0 lb /1.12 2.67"
      [] line = "3 AT 1 FOR 0.77 2.31" -> "AT 1 FOR 0.77 2.31"
      [] line = "SUBTOTAL 5.66" -> "SUBTOTAL 5.66"
      [] line = "SALES TAX 0.21" -> "SALES TAX 0.21"
      [] line = "TOTAL 5.87" -> "TOTAL 5.87"
      [] line = "GRAND TOTAL 5.87" -> "GRAND TOTAL 5.87"
      [] line = "0000360878 /1491866 3.60-" -> ".60-"
      [] line = "RICE 1 $3.50 N" -> "RICE 1 $3.50"

\* The name read before the price by parseWalmartReceipt (part_012 136-147).
WalmartName(line) ==
    CASE line = "MILK 2.99" -> "MILK"
      [] line = "BANANAS" -> ""
      [] line = "2.38 lb @ 1.0 lb /1.12 2.67" -> ".38 lb @ 1.0 lb /1.12"
      [] line = "2.38 1b @ 1.0 lb /1.12 2.67" -> ".38 1b @ 1.0 lb /1.12"
      [] line = "3 AT 1 FOR 0.77 2.31" -> "AT 1 FOR 0.77"
      [] line = "SUBTOTAL 5.66" -> "SUBTOTAL"
      [] line = "SALES TAX 0.21" -> "SALES TAX"
      [] line = "TOTAL 5.87" -> "TOTAL"
      [] line = "GRAND TOTAL 5.87" -> "GRAND TOTAL"
      [] line = "0000360878 /1491866 3.60-" -> ""
      [] line = "RICE 1 $3.50 N" -> ""

\* The name read before the price by parseHalalMarketReceipt, quantity
\* dropped (part_012 210-217).
HalalName(line) ==
    CASE line = "MILK 2.99" -> ""
      [] line = "BANANAS" -> ""
      [] line = "2.38 lb @ 1.0 lb /1.12 2.67" -> ""
      [] line = "2.38 1b @ 1.0 lb /1.12 2.67" -> ""
      [] line = "3 AT 1 FOR 0.77 2.31" -> ""
      [] line = "SUBTOTAL 5.66" -> ""
      [] line = "SALES TAX 0.21" -> ""
      [] line = "TOTAL 5.87" -> ""
      [] line = "GRAND TOTAL 5.87" -> ""
      [] line = "0000360878 /1491866 3.60-" -> ""
      [] line = "RICE 1 $3.50 N" -> "RICE"

\* The name read before the price by parseCostcoReceipt (part_012 313-334).
CostcoName(line) ==
    CASE line = "MILK 2.99" -> "MILK"
      [] line = "BANANAS" -> ""
      [] line = "2.38 lb @ 1.0 lb /1.12 2.67" -> "lb @ 1.0 lb /1.12"
      [] line = "2.38 1b @ 1.0 lb /1.12 2.67" -> "b @ 1.0 lb /1.12"
      [] line = "3 AT 1 FOR 0.77 2.31" -> "AT 1 FOR 0.77"
      [] line = "SUBTOTAL 5.66" -> "SUBTOTAL"
      [] line = "SALES TAX 0.21" -> "SALES TAX"
      [] line = "TOTAL 5.87" -> "TOTAL"
      [] line = "GRAND TOTAL 5.87" -> "GRAND TOTAL"
      [] line = "0000360878 /1491866 3.60-" -> ""
      [] line = "RICE 1 $3.50 N" -> ""

\* The name read before the price by parseGenericReceipt (part_012 386-393).
GenericName(line) ==
    CASE line = "MILK 2.99" -> "MILK"
      [] line = "BANANAS" -> ""
      [] line = "2.38 lb @ 1.0 lb /1.12 2.67" -> ".38 lb"
      [] line = "2.38 1b @ 1.0 lb /1.12 2.67" -> ".38 1b"
      [] line = "3 AT 1 FOR 0.77 2.31" -> "AT 1 FOR 0.77"
      [] line = "SUBTOTAL 5.66" -> "SUBTOTAL"
      [] line = "SALES TAX 0.21" -> "SALES TAX"
      [] line = "TOTAL 5.87" -> "TOTAL"
      [] line = "GRAND TOTAL 5.87" -> "GRAND TOTAL"
      [] line = "0000360878 /1491866 3.60-" -> ""
      [] line = "RICE 1 $3.50 N" -> "RICE 1 $"

\* The name read before the price by tryExtractItem (bills.ts 321-331).
LegacyName(line) ==
    CASE line = "MILK 2.99" -> "MILK"
      [] line = "BANANAS" -> ""
      [] line = "2.38 lb @ 1.0 lb /1.12 2.67" -> ".38 lb"
      [] line = "2.38 1b @ 1.0 lb /1.12 2.67" -> ".38 1b"
      [] line = "3 AT 1 FOR 0.77 2.31" -> "AT 1 FOR 0.77"
      [] line = "SUBTOTAL 5.66" -> "SUBTOTAL"
      [] line = "SALES TAX 0.21" -> "SALES TAX"
      [] line = "TOTAL 5.87" -> "TOTAL"
      [] line = "GRAND TOTAL 5.87" -> "GRAND TOTAL"
      [] line = "0000360878 /1491866 3.60-" -> ""
      [] line = "RICE 1 $3.50 N" -> "RICE 1 $"

\* name.replace(/^[0-9/\s]+/, '').trim() on the names parseHalalMarketReceipt builds
\* (part_012 232).
StripLeadingDigits(name) ==
    CASE name = "0000360878 /1491866 3.60- RICE" -> ".60- RICE"
      [] name = "BANANAS RICE" -> "BANANAS RICE"
      [] name = "RICE" -> "RICE"

\* cleanName on the names the sub-parsers build (bills.ts 806-826).
cleanName(raw) ==
    CASE raw = ".38 1b" -> ".38 1b"
      [] raw = ".60-" -> ".60-"
      [] raw = ".60- RICE" -> ".60- RICE"
      [] raw = "BANANAS" -> "BANANAS"
      [] raw = "BANANAS RICE" -> "BANANAS RICE"
      [] raw = "GRAND TOTAL" -> "GRAND TOTAL"
      [] raw = "GRAND TOTAL 5.87" -> "GRAND TOTAL 5.87"
      [] raw = "MILK" -> "MILK"
      [] raw = "MILK 2.99" -> "MILK 2.99"
      [] raw = "RICE" -> "RICE"
      [] raw = "RICE 1 $" -> "RICE"
      [] raw = "RICE 1 $3.50" -> "RICE 1 $3.50"
      [] raw = "b @ 1.0 lb /1.12" -> "b @ 1.0 lb"

\* cleanName of the legacy parser on the names it builds (bills.ts 461-477).
legacyCleanName(raw) ==
    CASE raw = ".38 1b" -> ".38 1b"
      [] raw = ".38 lb" -> ".38 lb"
      [] raw = "AT 1 FOR 0.77" -> "AT 1 FOR 0.77"
      [] raw = "BANANAS" -> "BANANAS"
      [] raw = "GRAND TOTAL" -> "GRAND TOTAL"
      [] raw = "MILK" -> "MILK"
      [] raw = "RICE 1 $" -> "RICE 1"


\* !receiptTotal, !totalAmount: null and 0 are both falsy.
Missing(amount) == amount = <<>> \/ amount = <<0>>

NoTotals == [receiptTotal |-> <<>>, taxAmount |-> 0, totalAmount |-> <<>>, totalsLines |-> {}]

\* One iteration of the loop of extractTotalsFromLines.  totalsLines collects
\* the indexes of the lines an amount was taken from.
TotalsFromLine(acc, line, i) ==
    LET amount == FirstAmount(line)
        sub == IF Missing(acc.receiptTotal) /\ IsSubtotalLine(line) /\ amount # <<>>
               THEN [acc EXCEPT !.receiptTotal = amount, !.totalsLines = @ \cup {i}]
               ELSE acc
        tax == IF IsTaxLine(line) /\ amount # <<>>
               THEN [sub EXCEPT !.taxAmount = @ + amount[1], !.totalsLines = @ \cup {i}]
               ELSE sub
    IN  IF Missing(tax.totalAmount) /\ IsTotalLine(line) /\ amount # <<>> /\ amount[1] > 0
        THEN [tax EXCEPT !.totalAmount = amount, !.totalsLines = @ \cup {i}]
        ELSE tax

RECURSIVE TotalsLoop(_, _, _)
TotalsLoop(ls, i, acc) ==
    IF i > Len(ls) THEN acc ELSE TotalsLoop(ls, i + 1, TotalsFromLine(acc, ls[i], i))

extractTotalsFromLines(ls) == TotalsLoop(ls, 1, NoTotals)

\* One iteration of the first loop of the legacy parser.
LegacyTotalsFromLine(acc, line, i) ==
    LET sub == IF Missing(acc.receiptTotal) /\ LegacySubtotal(line) # <<>>
               THEN [acc EXCEPT !.receiptTotal = LegacySubtotal(line), !.totalsLines = @ \cup {i}]
               ELSE acc
        tax == IF LegacyTax(line) # <<>>
               THEN [sub EXCEPT !.taxAmount = @ + LegacyTax(line)[1], !.totalsLines = @ \cup {i}]
               ELSE sub
        tot == IF Missing(tax.totalAmount) /\ LegacyTotal(line) # <<>>
               THEN [tax EXCEPT !.totalAmount = LegacyTotal(line), !.totalsLines = @ \cup {i}]
               ELSE tax
    IN  IF Missing(tot.totalAmount) /\ LegacyPayment(line) # <<>>
        THEN [tot EXCEPT !.totalAmount = LegacyPayment(line), !.totalsLines = @ \cup {i}]
        ELSE tot

RECURSIVE LegacyTotalsLoop(_, _, _)
LegacyTotalsLoop(ls, i, acc) ==
    IF i > Len(ls) THEN acc
    ELSE LegacyTotalsLoop(ls, i + 1, LegacyTotalsFromLine(acc, ls[i], i))

SumPrices(its) == SumInt([k \in 1..Len(its) |-> its[k].price])

ParseResult(its, receiptTotal, tax, totalAmount) ==
    [items |-> its, receiptTotal |-> receiptTotal, taxAmount |-> tax, totalAmount |-> totalAmount]

finalizeReceipt(its, receiptTotal, tax, totalAmount) ==
    IF (Missing(receiptTotal) \/ Missing(totalAmount)) /\ Len(its) > 0
    THEN LET subtotal == IF Missing(receiptTotal) THEN <<SumPrices(its)>> ELSE receiptTotal
         IN  ParseResult(its, subtotal, tax,
                         IF Missing(totalAmount) THEN <<subtotal[1] + tax>> ELSE totalAmount)
    ELSE ParseResult(its, receiptTotal, tax, totalAmount)

\* The totals the legacy parser returns: computed only when shouldCalculateTotals.
LegacyResult(its, receiptTotal, tax, totalAmount) ==
    IF Missing(receiptTotal) /\ Missing(totalAmount) /\ Len(its) > 0
    THEN ParseResult(its, <<SumPrices(its)>>, tax, <<SumPrices(its) + tax>>)
    ELSE ParseResult(its, receiptTotal, tax, totalAmount)

\* Names the parsers refuse as items.
WalmartHeaderNames == {"PRODUCT", "QTY", "AMT", "ITEM", "PRICE", "ST#", "OP#", "TE#", "TR#"}
HalalHeaderNames == {"PRODUCT", "QTY", "AMT", "ITEM", "PRICE"}
CostcoHeaderNames ==
    {"PRODUCT", "QTY", "AMT", "ITEM", "PRICE", "FID", "SEQ", "APP", "RESP", "TRAN",
     "SUBTOTAL", "TAX", "TOTAL", "WHOLESALE", "MEMBER", "SELF", "CHECKOUT"}
GenericHeaderNames ==
    {"PRODUCT", "QTY", "AMT", "ITEM", "PRICE", "DAIRY", "FROZEN", "POULTRY", "PRODUCE",
     "SEAFOOD", "BAKERY", "MEAT", "DELI"}
LegacyHeaderNames ==
    {"PRODUCT", "QTY", "AMT", "ITEM", "PRICE", "RODUCT", "DAIRY", "FROZEN", "POULTRY",
     "PRODUCE", "SEAFOOD", "SUBTOTAL", "TAX", "TOTAL"}

MinWalmartName == 2
MinCostcoName == 2
MinHalalName == 3
MinGenericName == 3
MinLegacyName == 3
MaxName == 60
MaxHalalName == 80
MaxPrevLine == 40
MaxNextLine == 30

NameAccepted(name, least, most, refused) ==
    Len(name) >= least /\ Len(name) <= most /\ name \notin refused

\* createItem of the utilities (bills.ts 764-772); id, userIds and splitType
\* play no part in parsing.
ParsedItem(name, price, nameLine, priceLine) ==
    [name |-> cleanName(name), price |-> price, nameLine |-> nameLine, priceLine |-> priceLine]

\* The item tryExtractItem returns (bills.ts 354-360).
LegacyItem(name, price, nameLine, priceLine) ==
    [name |-> legacyCleanName(name), price |-> price, nameLine |-> nameLine,
     priceLine |-> priceLine]

NoParse == [pending |-> TRUE]

\* The end of one loop iteration: on to the next line.
NextLine(its, used) ==
    /\ pItems' = its
    /\ usedLines' = used
    /\ lineIdx' = lineIdx + 1
    /\ UNCHANGED <<parser, lines, pPc, found, parseResult>>

InLoop(p) == pPc = "loop" /\ parser = p /\ lineIdx <= Len(lines)

\* parseReceiptText of the sub-parsers: the chosen sub-parser splits the text and
\* calls extractTotalsFromLines before its loop.  A call shares no state with
\* the calls before it, so one call is followed from the idle state.
ParseReceiptText ==
    /\ pPc = "idle"
    /\ \E p \in SubParsers, text \in Texts :
          /\ parser' = p
          /\ lines' = text
          /\ found' = extractTotalsFromLines(text)
    /\ pItems' = <<>>
    /\ usedLines' = {}
    /\ lineIdx' = 1
    /\ pPc' = "loop"
    /\ parseResult' = NoParse

\* parseReceiptText of bills.ts, called by ocr.extract: its first loop.
LegacyParseReceiptText ==
    /\ pPc = "idle"
    /\ \E text \in Texts :
          /\ parser' = "legacy"
          /\ lines' = text
          /\ found' = LegacyTotalsLoop(text, 1, NoTotals)
    /\ pItems' = <<>>
    /\ usedLines' = {}
    /\ lineIdx' = 1
    /\ pPc' = "loop"
    /\ parseResult' = NoParse

\* One iteration of the loop of parseWalmartReceipt.
WalmartLine ==
    /\ InLoop("walmart")
    /\ LET i == lineIdx
           line == lines[i]
       IN  IF \/ i \in usedLines
              \/ skipLine(line) \/ WalmartSummaryLine(line)
              \/ isWeightCalcLine(line) \/ isQtyCalcLine(line)
           THEN NextLine(pItems, usedLines)
           ELSE IF /\ i < Len(lines)
                   /\ isWeightCalcLine(lines[i + 1]) \/ isQtyCalcLine(lines[i + 1])
                   /\ LastPrice(lines[i + 1]) # <<>>
           THEN IF NameAccepted(WalmartNameOnly(line), MinWalmartName, MaxName,
                                WalmartHeaderNames)
                THEN NextLine(Append(pItems, ParsedItem(WalmartNameOnly(line),
                                                        LastPrice(lines[i + 1])[1], i, i + 1)),
                              usedLines \cup {i + 1})
                ELSE NextLine(pItems, usedLines)
           ELSE IF /\ WalmartPrice(line) # <<>>
                   /\ NameAccepted(WalmartName(line), MinWalmartName, MaxName,
                                   WalmartHeaderNames)
           THEN NextLine(Append(pItems, ParsedItem(WalmartName(line), WalmartPrice(line)[1],
                                                   i, i)),
                         usedLines)
           ELSE NextLine(pItems, usedLines)

\* The name parseHalalMarketReceipt gives the item of line i, and the line
\* the name starts on: the previous line is prepended when it is a short
\* line without a price that is neither used nor a header.
HalalPrepends(i) ==
    /\ i > 1
    /\ (i - 1) \notin usedLines
    /\ ~PrevHasPrice(lines[i - 1])
    /\ ~(skipLine(lines[i - 1]) \/ PrevIsHeaderWord(lines[i - 1]))
    /\ Len(lines[i - 1]) < MaxPrevLine

HalalFullName(i) ==
    StripLeadingDigits(IF HalalPrepends(i)
                       THEN lines[i - 1] \o " " \o HalalName(lines[i])
                       ELSE HalalName(lines[i]))

\* One iteration of the loop of parseHalalMarketReceipt.
HalalLine ==
    /\ InLoop("halal")
    /\ LET i == lineIdx
           line == lines[i]
           used == IF HalalPrepends(i) THEN usedLines \cup {i - 1} ELSE usedLines
       IN  IF i \in usedLines \/ skipLine(line) \/ HalalSummaryLine(line)
           THEN NextLine(pItems, usedLines)
           ELSE IF HalalPrice(line) = <<>>
           THEN NextLine(pItems, usedLines)
           ELSE IF NameAccepted(HalalFullName(i), MinHalalName, MaxHalalName, HalalHeaderNames)
           THEN NextLine(Append(pItems, ParsedItem(HalalFullName(i), HalalPrice(line)[1],
                                                   IF HalalPrepends(i) THEN i - 1 ELSE i, i)),
                         used)
           ELSE NextLine(pItems, used)

\* A discount that leaves the price as it was.
DiscountedPriceUnchanged(price, discountAmount) == price

\* lastItem.price = parseFloat((lastItem.price - discountAmount).toFixed(2)):
\* the difference of two amounts in cents is whole cents.
DiscountedPrice(price, discountAmount) == price - discountAmount

\* One iteration of the loop of parseCostcoReceipt.
CostcoLine ==
    /\ InLoop("costco")
    /\ LET i == lineIdx
           line == lines[i]
           last == Len(pItems)
       IN  IF i \in usedLines \/ skipLine(line) \/ CostcoSkipLine(line)
           THEN NextLine(pItems, usedLines)
           ELSE IF CostcoDiscount(line) # <<>>
           THEN IF last > 0
                THEN NextLine([pItems EXCEPT ![last].price =
                                   DiscountedPrice(@, CostcoDiscount(line)[1])],
                              usedLines)
                ELSE NextLine(pItems, usedLines)
           ELSE IF CostcoQtyLine(line) \/ CostcoPrice(line) = <<>>
           THEN NextLine(pItems, usedLines)
           ELSE IF NameAccepted(CostcoName(line), MinCostcoName, MaxName, CostcoHeaderNames)
           THEN NextLine(Append(pItems, ParsedItem(CostcoName(line), CostcoPrice(line)[1],
                                                   i, i)),
                         usedLines)
           ELSE NextLine(pItems, usedLines)

\* The next line continues the name of the item of line i.
GenericJoins(i) ==
    /\ Len(GenericName(lines[i])) >= MinGenericName
    /\ i < Len(lines)
    /\ ~NextHasPrice(lines[i + 1])
    /\ Len(lines[i + 1]) < MaxNextLine
    /\ StartsLowerOrEndsWithUnits(lines[i + 1])

GenericFullName(i) ==
    IF GenericJoins(i) THEN GenericName(lines[i]) \o " " \o lines[i + 1]
    ELSE GenericName(lines[i])

\* One iteration of the loop of parseGenericReceipt.
GenericLine ==
    /\ InLoop("generic")
    /\ LET i == lineIdx
           line == lines[i]
           used == IF GenericJoins(i) THEN usedLines \cup {i + 1} ELSE usedLines
       IN  IF i \in usedLines \/ skipLine(line) \/ GenericSummaryLine(line)
           THEN NextLine(pItems, usedLines)
           ELSE IF extractPriceFromLine(line) = <<>>
           THEN NextLine(pItems, usedLines)
           ELSE IF NameAccepted(GenericFullName(i), MinGenericName, MaxName,
                                GenericHeaderNames)
           THEN NextLine(Append(pItems, ParsedItem(GenericFullName(i),
                                                   extractPriceFromLine(line)[1], i, i)),
                         used)
           ELSE NextLine(pItems, used)

\* tryExtractItem names the item after the previous line when the text before
\* the price is shorter than three characters.
LegacyBorrowsName(i) ==
    /\ Len(LegacyName(lines[i])) < MinLegacyName
    /\ i > 1
    /\ Len(lines[i - 1]) >= MinLegacyName
    /\ ~HasDecimalAmount(lines[i - 1])

LegacyFullName(i) == IF LegacyBorrowsName(i) THEN lines[i - 1] ELSE LegacyName(lines[i])

\* One iteration of the second loop of the legacy parser; a summary line
\* ends the loop.
LegacyLine ==
    /\ InLoop("legacy")
    /\ LET i == lineIdx
           line == lines[i]
       IN  IF legacySkipLine(line)
           THEN NextLine(pItems, usedLines)
           ELSE IF LegacySummaryLine(line)
           THEN /\ lineIdx' = Len(lines) + 1
                /\ UNCHANGED <<parser, lines, pPc, pItems, usedLines, found, parseResult>>
           ELSE IF /\ LegacyPrice(line) # <<>>
                   /\ NameAccepted(LegacyFullName(i), MinLegacyName, MaxName,
                                   LegacyHeaderNames)
           THEN NextLine(Append(pItems, LegacyItem(LegacyFullName(i), LegacyPrice(line)[1],
                                                   IF LegacyBorrowsName(i) THEN i - 1 ELSE i,
                                                   i)),
                         usedLines)
           ELSE NextLine(pItems, usedLines)

\* The sub-parser returns finalizeReceipt(items, receiptTotal, taxAmount, totalAmount).
FinalizeReceipt ==
    /\ pPc = "loop"
    /\ parser \in SubParsers
    /\ lineIdx > Len(lines)
    /\ parseResult' = finalizeReceipt(pItems, found.receiptTotal, found.taxAmount,
                                      found.totalAmount)
    /\ pPc' = "done"
    /\ UNCHANGED <<parser, lines, lineIdx, pItems, usedLines, found>>

\* The legacy parser returns.
LegacyReturn ==
    /\ pPc = "loop"
    /\ parser = "legacy"
    /\ lineIdx > Len(lines)
    /\ parseResult' = LegacyResult(pItems, found.receiptTotal, found.taxAmount,
                                   found.totalAmount)
    /\ pPc' = "done"
    /\ UNCHANGED <<parser, lines, lineIdx, pItems, usedLines, found>>

ParseIdle ==
    /\ parser = "none"
    /\ lines = <<>>
    /\ pPc = "idle"
    /\ lineIdx = 1
    /\ pItems = <<>>
    /\ usedLines = {}
    /\ found = NoTotals
    /\ parseResult = NoParse

(***************************************************************************)
(* Image preprocessing: ImagePreprocessor (unnamed/part_006) and the part  *)
(* of recognizeText that builds the three candidate canvases               *)
(* (services/ocr/ocrService.js 29-41).  A canvas is an object on a heap:   *)
(* canvases[c] is the canvas with reference c, and a variable of the       *)
(* source holds a reference, 0 before it is assigned.  A pixel is          *)
(* <<r, g, b>>; the alpha channel is never written and is left out.        *)
(***************************************************************************)

\* Longest side of an image, in pixels.
MaxSide == 3

\* Ink and paper.  With these two colours no channel value computed below
\* lies half way between two integers.
Colours == {<<10, 20, 30>>, <<200, 220, 250>>}

\* The images recognizeText loads: below maxDimension, so that scaleImage
\* draws them unscaled.
Images ==
    UNION { [width : {w}, height : {h}, data : [1..(w * h) -> Colours]] :
              w \in 1..MaxSide, h \in 1..MaxSide }

\* Storing n / d (d > 0) into a Uint8ClampedArray: the nearest integer, the
\* even one of two equally near, held within 0..255.
Uint8Clamped(n, d) ==
    LET q == n \div d
        r == n % d
        nearest == IF 2 * r > d THEN q + 1
                   ELSE IF 2 * r < d THEN q
                   ELSE IF q % 2 = 0 THEN q ELSE q + 1
    IN IF nearest < 0 THEN 0 ELSE IF nearest > 255 THEN 255 ELSE nearest

\* pixels[i] = pixels[i + 1] = pixels[i + 2] = v
Grey(v) == <<v, v, v>>

convertToGrayscale(pixels) ==
    [i \in 1..Len(pixels) |->
        Grey(Uint8Clamped(299 * pixels[i][1] + 587 * pixels[i][2] + 114 * pixels[i][3], 1000))]

enhanceContrast(pixels) ==
    LET vals == {pixels[i][1] : i \in 1..Len(pixels)}
        min == CHOOSE v \in vals \cup {255} : \A w \in vals \cup {255} : v <= w
        max == CHOOSE v \in vals \cup {0} : \A w \in vals \cup {0} : v >= w
        range == max - min
    IN IF range > 0
       THEN [i \in 1..Len(pixels) |-> Grey(Uint8Clamped((pixels[i][1] - min) * 255, range))]
       ELSE pixels

\* The red channel of the pixel in column x of row y, both counted from 0
Red(pixels, width, x, y) == pixels[y * width + x + 1][1]

sharpenImage(pixels, width, height) ==
    [i \in 1..Len(pixels) |->
        LET x == (i - 1) % width
            y == (i - 1) \div width
        IN IF x >= 1 /\ x < width - 1 /\ y >= 1 /\ y < height - 1
           THEN Grey(Uint8Clamped(5 * Red(pixels, width, x, y)
                                    - Red(pixels, width, x, y - 1) - Red(pixels, width, x - 1, y)
                                    - Red(pixels, width, x + 1, y) - Red(pixels, width, x, y + 1), 1))
           ELSE pixels[i]]

blockSize == 15
ThresholdBias == 5

\* The pixels of i to the last one thresholded in turn, each against the
\* mean of its block as the pixels stand when its turn comes.
RECURSIVE ThresholdFrom(_, _, _, _)
ThresholdFrom(pixels, i, width, height) ==
    IF i > Len(pixels) THEN pixels
    ELSE LET x == (i - 1) % width
             y == (i - 1) \div width
             yStart == IF y - blockSize > 0 THEN y - blockSize ELSE 0
             yEnd == Min(height, y + blockSize)
             xStart == IF x - blockSize > 0 THEN x - blockSize ELSE 0
             xEnd == Min(width, x + blockSize)
             inBlock == [j \in 1..Len(pixels) |->
                            /\ (j - 1) % width >= xStart /\ (j - 1) % width < xEnd
                            /\ (j - 1) \div width >= yStart /\ (j - 1) \div width < yEnd]
             sum == SumInt([j \in 1..Len(pixels) |-> IF inBlock[j] THEN pixels[j][1] ELSE 0])
             count == SumInt([j \in 1..Len(pixels) |-> IF inBlock[j] THEN 1 ELSE 0])
             \* pixels[idx] > mean - C, mean = sum / count
             value == IF pixels[i][1] * count > sum - ThresholdBias * count THEN 255 ELSE 0
         IN ThresholdFrom([pixels EXCEPT ![i] = Grey(value)], i + 1, width, height)

applyAdaptiveThreshold(pixels, width, height) == ThresholdFrom(pixels, 1, width, height)

\* The pipeline of preprocessForOCR on the pixels getImageData returns
EnhancedPixels(canvas, skipThreshold) ==
    LET sharpened == sharpenImage(enhanceContrast(convertToGrayscale(canvas.data)),
                                  canvas.width, canvas.height)
    IN IF skipThreshold THEN sharpened
       ELSE applyAdaptiveThreshold(sharpened, canvas.width, canvas.height)

\* preprocessForOCR(canvas, {skipThreshold}) on the heap: putImageData
\* writes the pixels to the canvas it was given, and that canvas is
\* returned.
preprocessForOCR(heap, canvas, skipThreshold) ==
    [heap |-> [heap EXCEPT ![canvas].data = EnhancedPixels(heap[canvas], skipThreshold)],
     returned |-> canvas]

\* scaleImage(imgEl, 1800) for an image within maxDimension: a new canvas
\* of the image's size with the image drawn on it.
scaleImage(heap, imgEl) ==
    [heap |-> Append(heap, [width |-> imgEl.width, height |-> imgEl.height, data |-> imgEl.data]),
     returned |-> Len(heap) + 1]

\* _cloneCanvas(canvas): a new canvas of the same size with canvas drawn on it
cloneCanvas(heap, canvas) ==
    [heap |-> Append(heap, heap[canvas]), returned |-> Len(heap) + 1]

\* recognizeText, lines 23-29: the image is loaded and scaled
LoadAndScale ==
    /\ iPc = "idle"
    /\ \E imgEl \in Images :
          LET call == scaleImage(canvases, imgEl)
          IN /\ canvases' = call.heap
             /\ scaledCanvas' = call.returned
    /\ iPc' = "scaled"
    /\ UNCHANGED <<minimalCanvas, processed1, thresholdCanvas, processed2>>

\* Line 33
CloneMinimal ==
    /\ iPc = "scaled"
    /\ LET call == cloneCanvas(canvases, scaledCanvas)
       IN /\ canvases' = call.heap
          /\ minimalCanvas' = call.returned
    /\ iPc' = "minimalCloned"
    /\ UNCHANGED <<scaledCanvas, processed1, thresholdCanvas, processed2>>

\* Line 34
EnhanceMinimal ==
    /\ iPc = "minimalCloned"
    /\ LET call == preprocessForOCR(canvases, minimalCanvas, TRUE)
       IN /\ canvases' = call.heap
          /\ processed1' = call.returned
    /\ iPc' = "minimalEnhanced"
    /\ UNCHANGED <<scaledCanvas, minimalCanvas, thresholdCanvas, processed2>>

\* Line 37
CloneThreshold ==
    /\ iPc = "minimalEnhanced"
    /\ LET call == cloneCanvas(canvases, scaledCanvas)
       IN /\ canvases' = call.heap
          /\ thresholdCanvas' = call.returned
    /\ iPc' = "thresholdCloned"
    /\ UNCHANGED <<scaledCanvas, minimalCanvas, processed1, processed2>>

\* Lines 38-41; processed3 is scaledCanvas
EnhanceThreshold ==
    /\ iPc = "thresholdCloned"
    /\ LET call == preprocessForOCR(canvases, thresholdCanvas, FALSE)
       IN /\ canvases' = call.heap
          /\ processed2' = call.returned
    /\ iPc' = "done"
    /\ UNCHANGED <<scaledCanvas, minimalCanvas, processed1, thresholdCanvas>>

ImageIdle ==
    /\ iPc = "idle"
    /\ canvases = <<>>
    /\ scaledCanvas = 0
    /\ minimalCanvas = 0
    /\ processed1 = 0
    /\ thresholdCanvas = 0
    /\ processed2 = 0

(***************************************************************************)
(* The two collections and the methods that insert into them and remove    *)
(* from them (api/bills.ts 9-16, 45-50, 542-559; api/users.ts).  A         *)
(* document is known by its _id; a global user's name stands with its _id. *)
(***************************************************************************)

\* Most bills the collection holds.
MaxBills == 2

BillDocIds == 1..MaxBills
GlobalUserNames == {"Ann", "Bob"}

Returned(method) == [method |-> method, threw |-> FALSE]
Threw(method) == [method |-> method, threw |-> TRUE]

\* bills.insert: Bills.insertAsync gives the bill an _id no document has
BillsInsert ==
    /\ billDocs # BillDocIds
    /\ \E id \in BillDocIds \ billDocs : billDocs' = billDocs \cup {id}
    /\ lastCall' = Returned("bills.insert")
    /\ UNCHANGED <<production, globalUsers>>

\* bills.remove
BillsRemove(billId) ==
    /\ IF billId \in billDocs
       THEN /\ billDocs' = billDocs \ {billId}
            /\ lastCall' = Returned("bills.remove")
       ELSE /\ lastCall' = Threw("bills.remove")
            /\ UNCHANGED billDocs
    /\ UNCHANGED <<production, globalUsers>>

\* globalUsers.insert
GlobalUsersInsert(name) ==
    /\ IF name \in globalUsers
       THEN /\ lastCall' = Threw("globalUsers.insert")
            /\ UNCHANGED globalUsers
       ELSE /\ globalUsers' = globalUsers \cup {name}
            /\ lastCall' = Returned("globalUsers.insert")
    /\ UNCHANGED <<production, billDocs>>

\* globalUsers.remove
GlobalUsersRemove(userId) ==
    /\ IF userId \in globalUsers
       THEN /\ globalUsers' = globalUsers \ {userId}
            /\ lastCall' = Returned("globalUsers.remove")
       ELSE /\ lastCall' = Threw("globalUsers.remove")
            /\ UNCHANGED globalUsers
    /\ UNCHANGED <<production, billDocs>>

\* clearAllData: Bills.removeAsync({}), GlobalUsers.removeAsync({}) and
\* return { success: true }; the method body reads nothing of the
\* environment.
ClearAllData ==
    /\ billDocs' = {}
    /\ globalUsers' = {}
    /\ lastCall' = Returned("clearAllData")
    /\ UNCHANGED production

NoCall == [method |-> "none", threw |-> FALSE]

\* A server started in either environment, its collections empty
InitData ==
    /\ production \in BOOLEAN
    /\ billDocs = {}
    /\ globalUsers = {}
    /\ lastCall = NoCall

DataIdle ==
    /\ production = FALSE
    /\ billDocs = {}
    /\ globalUsers = {}
    /\ lastCall = NoCall

(***************************************************************************)
(* Two calls of bill methods on one bill (api/bills.ts 25-30, 39-44,       *)
(* 51-57, 66-88).  Each method awaits Bills.findOneAsync and later         *)
(* Bills.updateAsync; between the two the other call may run.  users and   *)
(* items are the stored bill.                                              *)
(***************************************************************************)

Callers == {"a", "b"}

\* The bills the calls run on: both people on the bill, an item for every
\* id, each split equally among some of the people.
RaceItems ==
    { [k \in ItemIds |-> createItem(ItemPrice, uids[k], k)] : uids \in [ItemIds -> SUBSET UserIds] }

\* The item a client edits before it calls bills.updateItems: its new
\* assignment.
EditedShapes == {shape \in ItemInputs : shape.splitType = "equal"}

ToggleCalls ==
    [method : {"bills.toggleUserOnItem"}, itemId : ItemIds, userId : UserIds, items : {<<>>}]
RemoveItemCalls ==
    [method : {"bills.removeItem"}, itemId : ItemIds, userId : {"none"}, items : {<<>>}]
RemoveUserCalls ==
    [method : {"bills.removeUser"}, itemId : {0}, userId : UserIds, items : {<<>>}]

\* bills.updateItems is called with the items of the bill as the client
\* has them, the item itemId replaced by its edited form.
UpdateItemsCalls(its) ==
    { [method |-> "bills.updateItems", itemId |-> its[k].id, userId |-> "none",
       items |-> [its EXCEPT ![k] = WithId(shape, its[k].id)]] :
         k \in 1..Len(its), shape \in EditedShapes }

NotCalled == [method |-> "none", itemId |-> 0, userId |-> "none", items |-> <<>>]
NoBill == [users |-> <<>>, items |-> <<>>]

Other(c) == CHOOSE d \in Callers : d # c

\* The method up to the point where findOneAsync has resolved: existing is
\* the bill as stored then.
MethodCalled(c) ==
    /\ rPc[c] = "idle"
    /\ \E call \in ToggleCalls \cup RemoveItemCalls \cup RemoveUserCalls \cup UpdateItemsCalls(items) :
          rCall' = [rCall EXCEPT ![c] = call]
    /\ existing' = [existing EXCEPT ![c] = [users |-> users, items |-> items]]
    /\ rPc' = [rPc EXCEPT ![c] = "fetched"]
    /\ overlapped' = (overlapped \/ rPc[Other(c)] = "fetched")
    /\ UNCHANGED billVars

\* Lines 72-85
updatedItems(its, itemId, userId) ==
    [k \in 1..Len(its) |->
        IF its[k].id = itemId
        THEN [its[k] EXCEPT !.userIds = IF userId \in @ THEN @ \ {userId} ELSE @ \cup {userId}]
        ELSE its[k]]

\* bills.toggleUserOnItem from line 72 on: 'Item not found' is thrown when
\* existing has no such item, else items is set
ToggleUserOnItemWrites(c) ==
    /\ rPc[c] = "fetched"
    /\ rCall[c].method = "bills.toggleUserOnItem"
    /\ IF \E k \in 1..Len(existing[c].items) : existing[c].items[k].id = rCall[c].itemId
       THEN /\ items' = updatedItems(existing[c].items, rCall[c].itemId, rCall[c].userId)
            /\ rPc' = [rPc EXCEPT ![c] = "done"]
       ELSE /\ rPc' = [rPc EXCEPT ![c] = "thrown"]
            /\ UNCHANGED items
    /\ UNCHANGED <<users, taxAmount, calculatedWithTax, receipt, rCall, existing, overlapped>>

\* bills.removeItem, line 43
RemoveItemWrites(c) ==
    /\ rPc[c] = "fetched"
    /\ rCall[c].method = "bills.removeItem"
    /\ items' = SelectSeq(existing[c].items, LAMBDA i : i.id # rCall[c].itemId)
    /\ rPc' = [rPc EXCEPT ![c] = "done"]
    /\ UNCHANGED <<users, taxAmount, calculatedWithTax, receipt, rCall, existing, overlapped>>

\* bills.removeUser, line 29
RemoveUserWrites(c) ==
    /\ rPc[c] = "fetched"
    /\ rCall[c].method = "bills.removeUser"
    /\ users' = SelectSeq(existing[c].users, LAMBDA u : u # rCall[c].userId)
    /\ items' = [k \in 1..Len(existing[c].items) |->
                   [existing[c].items[k] EXCEPT !.userIds = @ \ {rCall[c].userId}]]
    /\ rPc' = [rPc EXCEPT ![c] = "done"]
    /\ UNCHANGED <<taxAmount, calculatedWithTax, receipt, rCall, existing, overlapped>>

\* bills.updateItems, line 56
UpdateItemsWrites(c) ==
    /\ rPc[c] = "fetched"
    /\ rCall[c].method = "bills.updateItems"
    /\ items' = rCall[c].items
    /\ rPc' = [rPc EXCEPT ![c] = "done"]
    /\ UNCHANGED <<users, taxAmount, calculatedWithTax, receipt, rCall, existing, overlapped>>

RaceIdle ==
    /\ rPc = [c \in Callers |-> "idle"]
    /\ rCall = [c \in Callers |-> NotCalled]
    /\ existing = [c \in Callers |-> NoBill]
    /\ overlapped = FALSE

\* A bill of two people and their items, no call made yet
InitRace ==
    /\ RaceIdle
    /\ users = <<"u1", "u2">>
    /\ items \in RaceItems
    /\ taxAmount = 0
    /\ calculatedWithTax = <<>>
    /\ receipt = NoReceipt

(***************************************************************************)
(* Alerts (ui/blaze/layout.js 10-32, 138-143).  An alert is known by its   *)
(* id.  Every pushAlert starts a timer of the same delay, so the timers    *)
(* fire in the order they were started: timers holds, oldest first, the    *)
(* ids of the alerts whose timer is still pending.                         *)
(***************************************************************************)

\* Most alerts pushed in a run.
MaxAlerts == 5

AlertIds == 1..MaxAlerts

\* pushAlert(type, msg): the alert is appended and its timer started
PushAlert ==
    /\ pushed < MaxAlerts
    /\ pushed' = pushed + 1
    /\ alerts' = Append(alerts, pushed + 1)
    /\ timers' = Append(timers, pushed + 1)

\* The callback of setTimeout, lines 28-30: cur.shift() takes the first
\* alert off the list, or nothing off an empty list
TimerFires ==
    /\ timers # <<>>
    /\ timers' = Tail(timers)
    /\ alerts' = IF alerts = <<>> THEN alerts ELSE Tail(alerts)
    /\ UNCHANGED pushed

\* click .btn-close on the alert with this id
CloseAlert(id) ==
    /\ \E i \in 1..Len(alerts) : alerts[i] = id
    /\ alerts' = SelectSeq(alerts, LAMBDA a : a # id)
    /\ UNCHANGED <<timers, pushed>>

AlertsIdle ==
    /\ alerts = <<>>
    /\ timers = <<>>
    /\ pushed = 0

(***************************************************************************)
(* Specifications                                                          *)
(***************************************************************************)

NextParse ==
    \/ ParseReceiptText /\ UNCHANGED <<visionVars, ocrVars, billVars, uploadVars, imageVars, dataVars, raceVars, alertVars>>
    \/ LegacyParseReceiptText /\ UNCHANGED <<visionVars, ocrVars, billVars, uploadVars, imageVars, dataVars, raceVars, alertVars>>
    \/ WalmartLine /\ UNCHANGED <<visionVars, ocrVars, billVars, uploadVars, imageVars, dataVars, raceVars, alertVars>>
    \/ HalalLine /\ UNCHANGED <<visionVars, ocrVars, billVars, uploadVars, imageVars, dataVars, raceVars, alertVars>>
    \/ CostcoLine /\ UNCHANGED <<visionVars, ocrVars, billVars, uploadVars, imageVars, dataVars, raceVars, alertVars>>
    \/ GenericLine /\ UNCHANGED <<visionVars, ocrVars, billVars, uploadVars, imageVars, dataVars, raceVars, alertVars>>
    \/ LegacyLine /\ UNCHANGED <<visionVars, ocrVars, billVars, uploadVars, imageVars, dataVars, raceVars, alertVars>>
    \/ FinalizeReceipt /\ UNCHANGED <<visionVars, ocrVars, billVars, uploadVars, imageVars, dataVars, raceVars, alertVars>>
    \/ LegacyReturn /\ UNCHANGED <<visionVars, ocrVars, billVars, uploadVars, imageVars, dataVars, raceVars, alertVars>>

ParseStart == ParseIdle /\ VisionIdle /\ OcrIdle /\ InitBill /\ UploadIdle /\ ImageIdle /\ DataIdle /\ RaceIdle /\ AlertsIdle

SpecParse == ParseStart /\ [][NextParse]_vars

NextUpload ==
    \/ \E f \in Flows : HandleFileUpload(f) /\ UNCHANGED <<visionVars, ocrVars, billVars, parseVars, imageVars, dataVars, raceVars, alertVars>>
    \/ FileRead /\ UNCHANGED <<visionVars, ocrVars, billVars, parseVars, imageVars, dataVars, raceVars, alertVars>>
    \/ ImageCompressed /\ UNCHANGED <<visionVars, ocrVars, billVars, parseVars, imageVars, dataVars, raceVars, alertVars>>
    \/ BillInsertedForVision /\ UNCHANGED <<visionVars, ocrVars, billVars, parseVars, imageVars, dataVars, raceVars, alertVars>>
    \/ ProgressInterval /\ UNCHANGED <<visionVars, ocrVars, billVars, parseVars, imageVars, dataVars, raceVars, alertVars>>
    \/ VisionExtracted /\ UNCHANGED <<visionVars, ocrVars, billVars, parseVars, imageVars, dataVars, raceVars, alertVars>>
    \/ VisionFailed /\ UNCHANGED <<visionVars, ocrVars, billVars, parseVars, imageVars, dataVars, raceVars, alertVars>>
    \/ \E p \in CallbackPercents : ProgressCallback(p) /\ UNCHANGED <<visionVars, ocrVars, billVars, parseVars, imageVars, dataVars, raceVars, alertVars>>
    \/ \E success \in BOOLEAN : TextRecognized(success) /\ UNCHANGED <<visionVars, ocrVars, billVars, parseVars, imageVars, dataVars, raceVars, alertVars>>
    \/ BillInserted /\ UNCHANGED <<visionVars, ocrVars, billVars, parseVars, imageVars, dataVars, raceVars, alertVars>>
    \/ ItemsExtracted /\ UNCHANGED <<visionVars, ocrVars, billVars, parseVars, imageVars, dataVars, raceVars, alertVars>>
    \/ UploadRejected /\ UNCHANGED <<visionVars, ocrVars, billVars, parseVars, imageVars, dataVars, raceVars, alertVars>>

\* Only this part of the program runs; the others stay as constructed.
UploadStart == InitUpload /\ VisionIdle /\ OcrIdle /\ InitBill /\ ParseIdle /\ ImageIdle /\ DataIdle /\ RaceIdle /\ AlertsIdle

SpecUpload == UploadStart /\ [][NextUpload]_vars

\* An awaited promise settles: the FileReader fires onload or onerror, a
\* method call is answered or fails, compressImage and recognizeText return.
AwaitSettles ==
    /\ \/ FileRead
       \/ ImageCompressed
       \/ BillInsertedForVision
       \/ VisionExtracted
       \/ VisionFailed
       \/ \E success \in BOOLEAN : TextRecognized(success)
       \/ BillInserted
       \/ ItemsExtracted
       \/ UploadRejected
    /\ UNCHANGED <<visionVars, ocrVars, billVars, parseVars, imageVars, dataVars, raceVars, alertVars>>

\* The upload with every awaited promise settling in the end
SpecUploadLive == UploadStart /\ [][NextUpload]_vars /\ WF_vars(AwaitSettles)

NextBill ==
    \/ \E u \in UserIds : BillsAddUser(u) /\ UNCHANGED <<visionVars, ocrVars, uploadVars, parseVars, imageVars, dataVars, raceVars, alertVars>>
    \/ \E u \in UserIds : BillsRemoveUser(u) /\ UNCHANGED <<visionVars, ocrVars, uploadVars, parseVars, imageVars, dataVars, raceVars, alertVars>>
    \/ \E shape \in ItemInputs, id \in ItemIds :
          BillsAddItem(shape, id) /\ UNCHANGED <<visionVars, ocrVars, uploadVars, parseVars, imageVars, dataVars, raceVars, alertVars>>
    \/ \E id \in ItemIds : BillsRemoveItem(id) /\ UNCHANGED <<visionVars, ocrVars, uploadVars, parseVars, imageVars, dataVars, raceVars, alertVars>>
    \/ \E k \in 1..MaxItems, shape \in ItemInputs :
          BillsUpdateItems(k, shape) /\ UNCHANGED <<visionVars, ocrVars, uploadVars, parseVars, imageVars, dataVars, raceVars, alertVars>>
    \/ \E t \in TaxInputs : BillsUpdateTax(t) /\ UNCHANGED <<visionVars, ocrVars, uploadVars, parseVars, imageVars, dataVars, raceVars, alertVars>>
    \/ \E id \in ItemIds, u \in UserIds :
          BillsToggleUserOnItem(id, u) /\ UNCHANGED <<visionVars, ocrVars, uploadVars, parseVars, imageVars, dataVars, raceVars, alertVars>>
    \/ \E parsed \in ParsedReceipts, overSubtotal, overTotal \in BOOLEAN :
          OcrExtract(parsed, overSubtotal, overTotal)
             /\ UNCHANGED <<visionVars, ocrVars, uploadVars, parseVars, imageVars, dataVars, raceVars, alertVars>>

\* Only this part of the program runs; the others stay as constructed.
BillStart == InitBill /\ VisionIdle /\ OcrIdle /\ UploadIdle /\ ParseIdle /\ ImageIdle /\ DataIdle /\ RaceIdle /\ AlertsIdle

SpecBill == BillStart /\ [][NextBill]_vars

NextVision ==
    \/ ExtractReceiptWithGemini /\ UNCHANGED <<ocrVars, billVars, uploadVars, parseVars, imageVars, dataVars, raceVars, alertVars>>
    \/ \E r \in Responses : ExtractWithTokens(r) /\ UNCHANGED <<ocrVars, billVars, uploadVars, parseVars, imageVars, dataVars, raceVars, alertVars>>
    \/ ExtractReceiptWithGeminiSingle /\ UNCHANGED <<ocrVars, billVars, uploadVars, parseVars, imageVars, dataVars, raceVars, alertVars>>
    \/ \E r \in Responses : ExtractSingleResume(r) /\ UNCHANGED <<ocrVars, billVars, uploadVars, parseVars, imageVars, dataVars, raceVars, alertVars>>

\* Only this part of the program runs; the others stay as constructed.
VisionStart == InitVision /\ OcrIdle /\ InitBill /\ UploadIdle /\ ParseIdle /\ ImageIdle /\ DataIdle /\ RaceIdle /\ AlertsIdle

SpecVision == VisionStart /\ [][NextVision]_vars

NextOcr ==
    \/ \E ok \in BOOLEAN : RecognizeText(ok) /\ UNCHANGED <<visionVars, billVars, uploadVars, parseVars, imageVars, dataVars, raceVars, alertVars>>
    \/ \E p \in ProgressSteps : Logger(p) /\ UNCHANGED <<visionVars, billVars, uploadVars, parseVars, imageVars, dataVars, raceVars, alertVars>>
    \/ \E d \in TrialData : RecognizeResolves(d) /\ UNCHANGED <<visionVars, billVars, uploadVars, parseVars, imageVars, dataVars, raceVars, alertVars>>
    \/ RecognizeRejects /\ UNCHANGED <<visionVars, billVars, uploadVars, parseVars, imageVars, dataVars, raceVars, alertVars>>

\* Only this part of the program runs; the others stay as constructed.
OcrStart == InitOcr /\ VisionIdle /\ InitBill /\ UploadIdle /\ ParseIdle /\ ImageIdle /\ DataIdle /\ RaceIdle /\ AlertsIdle

SpecOcr == OcrStart /\ [][NextOcr]_vars

NextImage ==
    \/ LoadAndScale /\ UNCHANGED <<visionVars, ocrVars, billVars, uploadVars, parseVars, dataVars, raceVars, alertVars>>
    \/ CloneMinimal /\ UNCHANGED <<visionVars, ocrVars, billVars, uploadVars, parseVars, dataVars, raceVars, alertVars>>
    \/ EnhanceMinimal /\ UNCHANGED <<visionVars, ocrVars, billVars, uploadVars, parseVars, dataVars, raceVars, alertVars>>
    \/ CloneThreshold /\ UNCHANGED <<visionVars, ocrVars, billVars, uploadVars, parseVars, dataVars, raceVars, alertVars>>
    \/ EnhanceThreshold /\ UNCHANGED <<visionVars, ocrVars, billVars, uploadVars, parseVars, dataVars, raceVars, alertVars>>

ImageStart == ImageIdle /\ VisionIdle /\ OcrIdle /\ InitBill /\ UploadIdle /\ ParseIdle /\ DataIdle /\ RaceIdle /\ AlertsIdle

SpecImage == ImageStart /\ [][NextImage]_vars

NextData ==
    \/ BillsInsert /\ UNCHANGED <<visionVars, ocrVars, billVars, uploadVars, parseVars, imageVars, raceVars, alertVars>>
    \/ \E billId \in BillDocIds :
          BillsRemove(billId) /\ UNCHANGED <<visionVars, ocrVars, billVars, uploadVars, parseVars, imageVars, raceVars, alertVars>>
    \/ \E name \in GlobalUserNames :
          GlobalUsersInsert(name) /\ UNCHANGED <<visionVars, ocrVars, billVars, uploadVars, parseVars, imageVars, raceVars, alertVars>>
    \/ \E userId \in GlobalUserNames :
          GlobalUsersRemove(userId) /\ UNCHANGED <<visionVars, ocrVars, billVars, uploadVars, parseVars, imageVars, raceVars, alertVars>>
    \/ ClearAllData /\ UNCHANGED <<visionVars, ocrVars, billVars, uploadVars, parseVars, imageVars, raceVars, alertVars>>

DataStart == InitData /\ VisionIdle /\ OcrIdle /\ InitBill /\ UploadIdle /\ ParseIdle /\ ImageIdle /\ RaceIdle /\ AlertsIdle

SpecData == DataStart /\ [][NextData]_vars

NextRace ==
    \/ \E c \in Callers :
          MethodCalled(c) /\ UNCHANGED <<visionVars, ocrVars, uploadVars, parseVars, imageVars, dataVars, alertVars>>
    \/ \E c \in Callers :
          ToggleUserOnItemWrites(c) /\ UNCHANGED <<visionVars, ocrVars, uploadVars, parseVars, imageVars, dataVars, alertVars>>
    \/ \E c \in Callers :
          RemoveItemWrites(c) /\ UNCHANGED <<visionVars, ocrVars, uploadVars, parseVars, imageVars, dataVars, alertVars>>
    \/ \E c \in Callers :
          RemoveUserWrites(c) /\ UNCHANGED <<visionVars, ocrVars, uploadVars, parseVars, imageVars, dataVars, alertVars>>
    \/ \E c \in Callers :
          UpdateItemsWrites(c) /\ UNCHANGED <<visionVars, ocrVars, uploadVars, parseVars, imageVars, dataVars, alertVars>>

RaceStart == InitRace /\ VisionIdle /\ OcrIdle /\ UploadIdle /\ ParseIdle /\ ImageIdle /\ DataIdle /\ AlertsIdle

SpecRace == RaceStart /\ [][NextRace]_vars

NextAlerts ==
    \/ PushAlert /\ UNCHANGED <<visionVars, ocrVars, billVars, uploadVars, parseVars, imageVars, dataVars, raceVars>>
    \/ TimerFires /\ UNCHANGED <<visionVars, ocrVars, billVars, uploadVars, parseVars, imageVars, dataVars, raceVars>>
    \/ \E id \in AlertIds :
          CloseAlert(id) /\ UNCHANGED <<visionVars, ocrVars, billVars, uploadVars, parseVars, imageVars, dataVars, raceVars>>

AlertsStart ==
    AlertsIdle /\ VisionIdle /\ OcrIdle /\ InitBill /\ UploadIdle /\ ParseIdle /\ ImageIdle /\ DataIdle /\ RaceIdle

SpecAlerts == AlertsStart /\ [][NextAlerts]_vars

(***************************************************************************)
(* Properties of the vision extractor                                      *)
(***************************************************************************)

AbnormalOutcomes == {"no-candidates"} \cup (FinishReasons \ {"STOP", "MAX_TOKENS"})

AllTruncated == \A i \in 1..Len(finishes) : finishes[i] = "MAX_TOKENS"

IsPrefix(s, t) == Len(s) <= Len(t) /\ \A i \in 1..Len(s) : s[i] = t[i]

\* C3: one extract call makes at most 3 requests to the model, each sent
\* only after the previous one was answered, and once the last request is
\* answered the call has returned a result.
C3_AtMostThreeSequentialRequests ==
    /\ Len(requests) <= 3
    /\ Len(requests) - Len(finishes) = (IF gPc = "await" THEN 1 ELSE 0)
    /\ Len(finishes) = 3 => gPc = "done"
    /\ gPc = "done" => DOMAIN gResult = {"success", "error", "items"}

C3_Witness == gPc = "done" /\ Len(requests) = 3 /\ Len(finishes) = 3

\* C4: starting at ceiling 2048 with every attempt truncated, the attempts
\* are made at 2048, 4096, 8192 in that order, and the call fails only after
\* the 8192 attempt.
C4_TruncatedFrom2048 ==
    (variant = "adaptive" /\ requests # <<>> /\ requests[1] = 2048 /\ AllTruncated)
        => /\ IsPrefix(requests, <<2048, 4096, 8192>>)
           /\ gPc = "done" => /\ requests = <<2048, 4096, 8192>>
                              /\ gResult = Failure(ErrTooComplex)

C4_Witness ==
    /\ variant = "adaptive" /\ gPc = "done" /\ AllTruncated
    /\ requests = <<2048, 4096, 8192>> /\ Len(finishes) = 3

C6_AbnormalStopFailsAtOnce ==
    \A i \in 1..Len(finishes) :
        finishes[i] \in AbnormalOutcomes
            => /\ Len(requests) = i
               /\ gPc = "done"
               /\ ~gResult.success

C8_UnconfiguredFailsFast ==
    /\ ~apiKey => /\ requests = <<>> /\ finishes = <<>>
                  /\ gPc \in {"idle", "done"}
                  /\ gPc = "done" => gResult = Failure(ErrNoKey)
    /\ (apiKey /\ gPc = "done" /\ ~gResult.success) => gResult.error # ErrNoKey

C8_Witness == ~apiKey /\ gPc = "done" /\ gResult = Failure(ErrNoKey)

(***************************************************************************)
(* Properties of the text recogniser                                       *)
(***************************************************************************)

\* The trials of at least 30 characters among the first i.
Kept(i) == {j \in 1..i : trials[j].len >= MinTextLength}

\* The earliest of the highest-scoring kept trials among the first i.
TopScoring(i) ==
    CHOOSE j \in Kept(i) :
        \A k \in Kept(i) :
            \/ ScoreSquared(trials[j]) > ScoreSquared(trials[k])
            \/ ScoreSquared(trials[j]) = ScoreSquared(trials[k]) /\ j <= k

\* C9 as stated: if a trial reaches confidence > 70, at least 3 price
\* matches and length >= 100, no later trial is run and recognize returns
\* that trial's text.
C9_ExitTrialTextReturned ==
    \A i \in 1..Len(trials) :
        (trials[i].confidence > 70 /\ trials[i].priceCount >= 3 /\ trials[i].len >= 100)
            => /\ Len(trials) = i
               /\ oPc = "done"
               /\ oResult.text = TextOf(trials[i])

\* C9 amended: if a trial reaches confidence > 70, at least 3 price matches
\* and length >= 100, no later trial is run and recognize returns the text
\* of the highest-scoring trial run so far (the earliest one on equal
\* scores): the exit trial's own text when it scores above every earlier
\* trial of at least 30 characters, an earlier trial's text otherwise.
C9_ExitReturnsTopScoring ==
    \A i \in 1..Len(trials) :
        (trials[i].confidence > 70 /\ trials[i].priceCount >= 3 /\ trials[i].len >= 100)
            => /\ Len(trials) = i
               /\ oPc = "done"
               /\ oResult.text = TextOf(trials[TopScoring(i)])
               /\ oResult.confidence = trials[TopScoring(i)].confidence
               /\ (\A j \in Kept(i - 1) : ScoreSquared(trials[j]) < ScoreSquared(trials[i]))
                      => oResult.text = TextOf(trials[i])
               /\ (\E j \in Kept(i - 1) : ScoreSquared(trials[j]) >= ScoreSquared(trials[i]))
                      => \E j \in Kept(i - 1) : oResult.text = TextOf(trials[j])

C9_Witness ==
    /\ oPc = "done"
    /\ Len(trials) = 2
    /\ trials[2].confidence > 70 /\ trials[2].priceCount >= 3 /\ trials[2].len >= 100
    /\ oResult.text = TextOf(trials[1])
    /\ oResult.text # TextOf(trials[2])

\* C10: within one recognize call the percentages passed to the progress
\* callback never go down.
C10_ProgressNonDecreasing ==
    \A i \in 1..Len(reported) : \A j \in i..Len(reported) : reported[i] <= reported[j]

(***************************************************************************)
(* Properties of the expense views                                         *)
(***************************************************************************)

RECURSIVE SumFn(_)
SumFn(f) ==
    IF DOMAIN f = {} THEN 0
    ELSE LET x == CHOOSE y \in DOMAIN f : TRUE
         IN f[x] + SumFn([y \in DOMAIN f \ {x} |-> f[y]])

\* Every item is assigned to somebody, and only to users of the bill.
EveryItemAssigned ==
    \A k \in 1..Len(items) :
        /\ ItemKeys(items[k]) # {}
        /\ ItemKeys(items[k]) \subseteq {users[i] : i \in 1..Len(users)}

\* C1: the per-participant amounts of the summary computeExpenseSummary
\* returns sum, to the cent, to its grandTotal. Stated for bills in which
\* every item is assigned to somebody on the roster, where rounding alone
\* can separate the two sums.
C1_AmountsSumToGrandTotal ==
    \A up \in BOOLEAN :
        LET summary == computeExpenseSummary(items, up)
        IN (EveryItemAssigned /\ ~summary.thrown)
              => SumFn(summary.perUser) = summary.grandTotal

\* C2: in every bill reached by item and tax edits, the final per-participant
\* totals (after the residual went to the largest fractional remainder) sum
\* to the current sum of item prices plus tax.
C2_FinalTotalsSumToItemsPlusTax ==
    \A up \in BOOLEAN :
        LET rows == finalPerUserRows(up)
        IN (users # <<>> /\ ~ThrowsTypeError(items))
              => SumInt([i \in 1..Len(rows) |-> rows[i].totalRounded])
                    = SumInt([k \in 1..Len(items) |-> items[k].price]) + taxAmount

(***************************************************************************)
(* Properties of the receipt upload                                        *)
(***************************************************************************)

\* C11: during one upload the progress percentage never decreases while
\* processing is in progress, also when vision extraction fails and the
\* handler switches to local OCR.
C11_UploadProgressNeverDecreases ==
    \A i \in 1..Len(progressLog) : \A j \in i..Len(progressLog) :
        progressLog[i] <= progressLog[j]

(***************************************************************************)
(* Properties of a stored receipt parse                                    *)
(***************************************************************************)

\* C12: a totals mismatch flag is false when the computed and the declared
\* amount differ by at most 0.05 and true otherwise; a difference of exactly
\* 0.05 gives false.
C12_MismatchFlagAtTolerance ==
    receipt.scanned =>
        /\ (receipt.receiptTotal # <<>> /\ receipt.receiptTotal[1] # 0)
              => (receipt.totalMismatch
                    <=> Abs(receipt.calculatedTotal - receipt.receiptTotal[1])
                           > MismatchTolerance)
        /\ (receipt.totalAmount # <<>> /\ receipt.totalAmount[1] # 0)
              => (receipt.totalWithTaxMismatch
                    <=> Abs(calculatedWithTax[1] - receipt.totalAmount[1])
                           > MismatchTolerance)

(***************************************************************************)
(* Properties of the split rules                                           *)
(***************************************************************************)

\* The percent shares of item k and their sum
PercentShares(k) == SharesOfType(items[k], "percent")

DeclaredPercent(k) ==
    SumInt([a \in 1..Len(PercentShares(k)) |-> PercentShares(k)[a].value])

\* C14: for a percent item whose declared percentages sum to S other than
\* 100, each participant is allocated price x p / S (rounded to the cent in
\* the summary), so any two participants' allocations are in the ratio of
\* their declared percentages.
C14_PercentSharesKeepRatio ==
    \A k \in 1..Len(items) :
        (IsPercentItem(items[k]) /\ DeclaredPercent(k) \notin {0, 100}) =>
            LET shares == PercentShares(k)
                S == DeclaredPercent(k)
                credit == [a \in 1..Len(shares) |-> ItemCredit(items[k], shares[a].userId)]
                amounts == [up \in BOOLEAN |-> computeExpenseSummary(<<items[k]>>, up).perUser]
            IN \A a \in 1..Len(shares) :
                  /\ credit[a] = Rat(items[k].price * shares[a].value, S)
                  /\ \A b \in 1..Len(shares) :
                        credit[a].n * credit[b].d * shares[b].value
                           = credit[b].n * credit[a].d * shares[a].value
                  /\ \A up \in BOOLEAN :
                        amounts[up][shares[a].userId]
                           = ToFixed2(Rat(items[k].price * shares[a].value, S), up)

C14_Witness ==
    \E k \in 1..Len(items) :
        /\ IsPercentItem(items[k])
        /\ DeclaredPercent(k) = 90
        /\ \E a, b \in 1..Len(PercentShares(k)) :
              PercentShares(k)[a].value # PercentShares(k)[b].value

\* The fixed shares of item k and the sum of their declared amounts
FixedShares(k) == SharesOfType(items[k], "fixed")

DeclaredFixed(k) ==
    SumInt([a \in 1..Len(FixedShares(k)) |-> FixedShares(k)[a].value])

C16_SummaryNeverThrows ==
    \A up \in BOOLEAN : ~computeExpenseSummary(items, up).thrown

(***************************************************************************)
(* Receipt text parsers: claims                                            *)
(***************************************************************************)

\* C13: when a parse with at least one item is finalized, a subtotal that was
\* not found in the text is the sum of the item prices and a total that was not
\* found is subtotal + tax, each on its own, also when only one of the two is
\* missing.
C13_MissingTotalsComputed ==
    (pPc = "done" /\ Len(parseResult.items) > 0) =>
        /\ Missing(found.receiptTotal) =>
               parseResult.receiptTotal = <<SumPrices(parseResult.items)>>
        /\ Missing(found.totalAmount) =>
               /\ parseResult.receiptTotal # <<>>
               /\ parseResult.totalAmount =
                      <<parseResult.receiptTotal[1] + parseResult.taxAmount>>

\* A weight or quantity calculation line, as parseWalmartReceipt tells them.
IsCalcLine(line) == isWeightCalcLine(line) \/ isQtyCalcLine(line)

\* C17: in every sub-parser a weight/quantity calculation line never becomes
\* an item itself: no item is named from the text of a calculation line.
C17_CalcLineNeverAnItem ==
    parser \in SubParsers =>
        \A k \in 1..Len(pItems) : ~IsCalcLine(lines[pItems[k].nameLine])

\* C18: in the store-specific parser that understands discount lines
\* (parseCostcoReceipt), the loop iteration that reads a discount line adds no
\* item, and when the last item was taken from the immediately preceding line
\* it lowers that item's price by the discount amount.
C18_DiscountLowersPrecedingItem ==
    [][(InLoop("costco") /\ CostcoDiscount(lines[lineIdx]) # <<>>) =>
          /\ Len(pItems') = Len(pItems)
          /\ \A k \in 1..Len(pItems) :
                /\ pItems'[k].name = pItems[k].name
                /\ pItems'[k].nameLine = pItems[k].nameLine
                /\ pItems'[k].priceLine = pItems[k].priceLine
                /\ pItems[k].priceLine = lineIdx - 1 =>
                       pItems'[k].price =
                           pItems[k].price - CostcoDiscount(lines[lineIdx])[1]]_vars

\* parseCostcoReceipt has returned an item whose price is the price on its own
\* line less the discount on the line after it.
C18_Witness ==
    /\ parser = "costco"
    /\ pPc = "done"
    /\ \E k \in 1..Len(parseResult.items) :
          LET j == parseResult.items[k].priceLine
          IN  /\ j < Len(lines)
              /\ CostcoDiscount(lines[j + 1]) # <<>>
              /\ parseResult.items[k].price =
                     CostcoPrice(lines[j])[1] - CostcoDiscount(lines[j + 1])[1]

\* C19: a line the totals extractor took the subtotal, the tax or the total
\* from is never also emitted as an item by a sub-parser.
C19_TotalsLineNeverAnItem ==
    parser \in SubParsers =>
        \A k \in 1..Len(pItems) :
            /\ pItems[k].nameLine \notin found.totalsLines
            /\ pItems[k].priceLine \notin found.totalsLines

\* C20: every item of a parse result has a price of at least 0.
C20_ItemPricesNotNegative ==
    pPc = "done" => \A k \in 1..Len(parseResult.items) : parseResult.items[k].price >= 0

(***************************************************************************)
(* Image preprocessing: claims                                             *)
(***************************************************************************)

\* C21: image enhancement has no side effect on its input: when
\* preprocessForOCR(canvas, options) returns, the pixels of the canvas it
\* was passed are as they were and the canvas returned is another one.
C21_EnhanceLeavesInputAlone ==
    [][/\ iPc = "minimalCloned" =>
            /\ canvases'[minimalCanvas] = canvases[minimalCanvas]
            /\ processed1' # minimalCanvas
       /\ iPc = "thresholdCloned" =>
            /\ canvases'[thresholdCanvas] = canvases[thresholdCanvas]
            /\ processed2' # thresholdCanvas]_vars

(***************************************************************************)
(* Receipt upload: claims                                                  *)
(***************************************************************************)

UploadEnded == uPc = "idle" /\ progressLog # <<>>

\* C26: for every receipt upload, the number of bills it creates is 1 if
\* the upload ends by navigating to a bill and 0 otherwise; no empty bill
\* is left behind when vision extraction fails and the flow falls back to
\* local OCR or aborts.
C26_OneBillIfNavigatedElseNone ==
    UploadEnded => billsCreated = (IF navigated THEN 1 ELSE 0)

\* C27: every upload that sets ocrProcessing and actionLock to true sets
\* both back to false in the end, on every outcome.
C27_UploadReleasesLock ==
    (ocrProcessing /\ actionLock) ~> (~ocrProcessing /\ ~actionLock)

\* An upload whose vision extraction failed and whose text recognition
\* failed too has ended with both released.
C27_Witness ==
    /\ UploadEnded
    /\ flow = "layout"
    /\ callbacks > 0
    /\ ~navigated
    /\ ~ocrProcessing
    /\ ~actionLock

(***************************************************************************)
(* Bill methods: claims                                                    *)
(***************************************************************************)

\* C22: after bills.addUser(billId, user) succeeds, the id of the new user
\* is in the userIds of every item the bill already had.
C22_AddedUserJoinsExistingItems ==
    [][\A u \in UserIds :
          users' = Append(users, u) =>
              \A k \in 1..Len(items) : u \in items'[k].userIds]_vars

\* C25: after bills.removeUser(billId, userId) succeeds the removed user is
\* assigned to no item of the bill, and computeExpenseSummary of the bill
\* attributes no amount to that user, whatever the split types of the
\* items.
C25_RemovedUserOwesNothing ==
    [][\A u \in UserIds :
          ((\E i \in 1..Len(users) : users[i] = u) /\ (\A i \in 1..Len(users') : users'[i] # u)) =>
              /\ \A k \in 1..Len(items') : u \notin items'[k].userIds
              /\ \A up \in BOOLEAN :
                    LET summary == computeExpenseSummary(items', up)
                    IN u \in DOMAIN summary.perUser => summary.perUser[u] = 0]_vars

\* C28: after any sequence of bills methods on a bill, every id in the
\* userIds of an item is the id of a user in the users list of the bill.
C28_AssignedUsersAreBillUsers ==
    \A k \in 1..Len(items) : items[k].userIds \subseteq {users[i] : i \in 1..Len(users)}

\* The split page lists the participants: the bill has users and
\* computeExpenseSummary returns.
RowsListed == users # <<>> /\ ~ThrowsTypeError(items)

\* C30: whenever the split page lists at least one participant and the
\* bill total is greater than 0, the integer percentage shares shown for
\* the participants sum to exactly 100.
C30_PercentagesSumTo100 ==
    RowsListed =>
        \A up, under \in BOOLEAN :
            LET summary == computeExpenseSummary(items, up)
                rows == finalPerUserRows(up)
            IN BillTotal(summary) > 0 =>
                  SumInt(sharePercentageInt(rows, summary, under)) = 100

\* Two participants whose shares are not whole percents: the floors sum
\* to 99 and one percent is handed out.
C30_Witness ==
    /\ RowsListed
    /\ Len(users) = 2
    /\ \E up \in BOOLEAN :
          LET summary == computeExpenseSummary(items, up)
              rows == finalPerUserRows(up)
              shares == ExactShares(rows, summary)
          IN /\ BillTotal(summary) > 0
             /\ SumInt([i \in 1..Len(rows) |-> FloorPercent(shares[i], FALSE)]) = 99
             /\ SumInt(sharePercentageInt(rows, summary, FALSE)) = 100

(***************************************************************************)
(* Collections: claims                                                     *)
(***************************************************************************)

\* C23: clearAllData is only available in the development environment: a
\* call made in production throws and removes no bill and no user.
C23_ClearAllDataRefusedInProduction ==
    [][(production /\ lastCall'.method = "clearAllData") =>
           /\ lastCall'.threw
           /\ billDocs' = billDocs
           /\ globalUsers' = globalUsers]_vars

(***************************************************************************)
(* Concurrent bill methods: claims                                         *)
(***************************************************************************)

ItemCall(call) ==
    call.method \in {"bills.toggleUserOnItem", "bills.removeItem", "bills.updateItems"}

\* The item of the stored bill with this id, <<>> when there is none
StoredItem(itemId) == SelectSeq(items, LAMBDA i : i.id = itemId)

\* The users a call of bills.updateItems assigns to the item it edits
EditedUserIds(call) ==
    UNION {call.items[k].userIds : k \in {j \in 1..Len(call.items) : call.items[j].id = call.itemId}}

\* The two calls change different items or users: two item calls on
\* different items, two removals of different users, the removal of a user
\* and a call that neither toggles nor assigns that user.
ChangeDifferentThings(x, y) ==
    IF ItemCall(x) /\ ItemCall(y) THEN x.itemId # y.itemId
    ELSE IF ~ItemCall(x) /\ ~ItemCall(y) THEN x.userId # y.userId
    ELSE LET removal == IF ItemCall(x) THEN y ELSE x
             other == IF ItemCall(x) THEN x ELSE y
         IN /\ other.userId # removal.userId
            /\ removal.userId \notin EditedUserIds(other)

\* The stored bill shows the change the call of c made
Reflected(c) ==
    LET call == rCall[c]
        was == SelectSeq(existing[c].items, LAMBDA i : i.id = call.itemId)
        now == StoredItem(call.itemId)
    IN CASE call.method = "bills.toggleUserOnItem" ->
              /\ now # <<>>
              /\ (call.userId \in now[1].userIds) # (call.userId \in was[1].userIds)
         [] call.method = "bills.removeItem" -> now = <<>>
         [] call.method = "bills.removeUser" ->
              /\ \A i \in 1..Len(users) : users[i] # call.userId
              /\ \A k \in 1..Len(items) : call.userId \notin items[k].userIds
         [] call.method = "bills.updateItems" ->
              /\ now # <<>>
              /\ \E k \in 1..Len(call.items) : call.items[k] = now[1]

BothDone == \A c \in Callers : rPc[c] = "done"

\* C24: when two bill-mutating methods (bills.toggleUserOnItem,
\* bills.removeItem, bills.removeUser, bills.updateItems) run concurrently
\* on one bill and change different items or users, the stored bill
\* afterwards shows both changes.
C24_ConcurrentChangesBothKept ==
    (BothDone /\ ChangeDifferentThings(rCall["a"], rCall["b"])) =>
        (Reflected("a") /\ Reflected("b"))

(***************************************************************************)
(* Alerts: claims                                                          *)
(***************************************************************************)

Shown(list) == {list[i] : i \in 1..Len(list)}

\* C29: an alert stays visible until its own 6-second timer fires or the
\* user closes that alert: a step that takes an alert off the list is the
\* click on its close button or the firing of the timer started with it.
C29_AlertStaysUntilOwnTimerOrClose ==
    [][\A id \in Shown(alerts) \ Shown(alerts') :
          \/ timers' = timers
          \/ (timers # <<>> /\ Head(timers) = id)]_vars

====
